---- MODULE Spec2Model ----
(***************************************************************************)
(* A model of the sd-visualiser core: the HyperGraph arena and add_node,   *)
(* the rank computation, the monoidal synthesis, the swap layers, the      *)
(* reachability iterator, the collapse adaptor and the free variables.     *)
(*                                                                         *)
(* Rust indices are 0-based; TLA+ sequences are 1-based.  A NodeIndex n    *)
(* addresses element n + 1 of the sequence that models the slab.           *)
(***************************************************************************)
EXTENDS Integers, Sequences, FiniteSets, TLC

VARIABLES
    graph,      \* HyperGraph.nodes of the graph under construction
    failures,   \* add_node calls on the graph that returned an error
    last,       \* the last call on the graph and what it returned
    swaps,      \* a running call of Slice::permutation_to_swaps: its locals
    reach,      \* an NReachable iterator, the graph it walks and what it yielded
    collapse,   \* a CollapseGraph: the wrapped graph, the expansion map, the
                \* last calls on it
    free,       \* a FreeVars cache, the thunk it is asked about and the
                \* variables the call collected
    curwiring   \* the Wiring under construction (Wiring::new, add_wire)

vars == <<graph, failures, last, swaps, reach, collapse, free, curwiring>>

----------------------------------------------------------------------------
(* Bounds of the model *)

\* nodes in one hypergraph
MaxNodes == 3
\* length of the `inputs` vector handed to add_node
MaxInputs == 2
\* `output_ports` handed to add_node
MaxOutputs == 2
\* failed add_node calls on one hypergraph
MaxFailures == 1
\* wires of a permutation handed to permutation_to_swaps
MaxWires == 6
\* the largest entry of a sequence with repeated entries handed to it
MaxValue == 2
\* nodes of a graph that NReachable walks
ReachNodes == 4
\* (source, target) pairs of that graph, counted with repetition
MaxEdges == 4
\* nodes an NReachable starts from
MaxStarts == 2
\* depth limit an NReachable is created with
MaxDepth == 2
\* argument of increase_depth_limit
MaxIncrease == 2
\* width of a usize of the model, in bits
UsizeBits == 4
\* calls that raise the depth limit of one NReachable
MaxBumps == 1
\* nodes (operations and thunks, at any nesting depth) of a wrapped graph
CollapseNodes == 3
\* calls on a CollapseGraph that are remembered, the latest last
MaxLog == 2
\* views of a CollapseGraph that are alive
MaxViews == 2
\* elements of a path handed to recurse
MaxPath == 2

----------------------------------------------------------------------------
(* Helpers on sequences *)

Range(s) == {s[i] : i \in 1..Len(s)}

SeqsUpTo(S, n) == UNION {[1..k -> S] : k \in 0..n}

Perms(S) == {p \in [1..Cardinality(S) -> S] : Range(p) = S}

RECURSIVE SumSeq(_)
SumSeq(s) == IF s = <<>> THEN 0 ELSE Head(s) + SumSeq(Tail(s))

RECURSIVE Flatten(_)
Flatten(ss) == IF ss = <<>> THEN <<>> ELSE Head(ss) \o Flatten(Tail(ss))

Reverse(s) == [i \in 1..Len(s) |-> s[Len(s) + 1 - i]]

\* the orderings of the members of S
RECURSIVE PermSeqs(_)
PermSeqs(S) ==
    IF S = {} THEN {<<>>}
    ELSE UNION {{<<x>> \o p : p \in PermSeqs(S \ {x})} : x \in S}

----------------------------------------------------------------------------
(* hypergraph.rs: Port, Node, NodeInfo, HyperGraph *)

Port(n, i) == [node |-> n, index |-> i]

WeightNode == [kind |-> "Weight"]
InputNode == [kind |-> "Input"]
OutputNode == [kind |-> "Output"]
ThunkNode(a, b) == [kind |-> "Thunk", args |-> a, body |-> b]

is_input(d) == d.kind = "Input"
is_output(d) == d.kind = "Output"

NodeInfo(d, ins, outs) == [data |-> d, inputs |-> ins, outputs |-> outs]

\* HyperGraph::new: an empty slab
NewGraph == <<>>

\* Slab::vacant_key: nothing is ever removed, so the next key is the length
vacant_key(g) == Len(g)

\* Slab::get
HasNode(g, n) == n \in 0..(Len(g) - 1)
get_info(g, n) == g[n + 1]

NodeIndices(g) == 0..(Len(g) - 1)

\* A loop that records the source node, not the new node, as the consumer.
RECURSIVE WireInputsNamingSource(_, _, _, _)
WireInputsNamingSource(g, inputs, i, next_node) ==
    IF i > Len(inputs) THEN [nodes |-> g, result |-> "Ok"]
    ELSE LET p == inputs[i] IN
         IF ~HasNode(g, p.node) THEN [nodes |-> g, result |-> "UnknownNode"]
         ELSE IF p.index + 1 > Len(get_info(g, p.node).outputs)
              THEN [nodes |-> g, result |-> "UnknownPort"]
              ELSE LET info == get_info(g, p.node)
                       port_set == info.outputs[p.index + 1] \cup {Port(p.node, i - 1)}
                       g2 == [g EXCEPT ![p.node + 1].outputs[p.index + 1] = port_set]
                   IN WireInputsNamingSource(g2, inputs, i + 1, next_node)

\* The loop of add_node over `inputs`, from entry i on: each valid entry is
\* inserted into its source's port set before the next entry is looked at;
\* the first invalid entry returns the error with the earlier inserts kept.
RECURSIVE WireInputs(_, _, _, _)
WireInputs(g, inputs, i, next_node) ==
    IF i > Len(inputs) THEN [nodes |-> g, result |-> "Ok"]
    ELSE LET p == inputs[i] IN
         IF ~HasNode(g, p.node) THEN [nodes |-> g, result |-> "UnknownNode"]
         ELSE IF p.index + 1 > Len(get_info(g, p.node).outputs)
              THEN [nodes |-> g, result |-> "UnknownPort"]
              ELSE LET info == get_info(g, p.node)
                       port_set == info.outputs[p.index + 1] \cup {Port(next_node, i - 1)}
                       g2 == [g EXCEPT ![p.node + 1].outputs[p.index + 1] = port_set]
                   IN WireInputs(g2, inputs, i + 1, next_node)

\* HyperGraph::add_node
add_node(g, data, inputs, output_ports) ==
    LET next_node == vacant_key(g)
        w == WireInputs(g, inputs, 1, next_node)
    IN IF w.result # "Ok"
       THEN [nodes |-> w.nodes, result |-> w.result]
       ELSE [nodes |-> Append(w.nodes,
                              NodeInfo(data, inputs, [k \in 1..output_ports |-> {}])),
             result |-> "Ok"]

\* HyperGraph::default
DefaultGraph ==
    add_node(add_node(NewGraph, InputNode, <<>>, 0).nodes, OutputNode, <<>>, 0).nodes


\* HyperGraph::number_of_outputs, get_inputs, number_of_inputs
number_of_outputs(g, n) == Len(get_info(g, n).outputs)
get_inputs(g, n) == get_info(g, n).inputs
number_of_inputs(g, n) == Len(get_info(g, n).inputs)

\* The consumer nodes of node n: o.outputs.iter().flat_map(|x| x.iter().map(|y| y.node))
Consumers(g, n) ==
    UNION {{p.node : p \in get_info(g, n).outputs[k]} : k \in 1..Len(get_info(g, n).outputs)}

InputNodes(g) == {n \in NodeIndices(g) : is_input(get_info(g, n).data)}
OutputNodes(g) == {n \in NodeIndices(g) : is_output(get_info(g, n).data)}
InteriorNodes(g) == (NodeIndices(g) \ InputNodes(g)) \ OutputNodes(g)

----------------------------------------------------------------------------
(* hypergraph.rs: ranks_from_end.  `nodes` is a std HashMap, whose iteration *)
(* order is unspecified: ord, a sequence holding every interior node once,  *)
(* is the order in which the map yields its entries (retain keeps the       *)
(* relative order of the entries it leaves).                                *)

\* One `for (n, o) in nodes.iter()` pass, from position i of ord on.
\* collected grows inside the pass, as in the code.
RECURSIVE RankPass(_, _, _, _, _, _)
RankPass(g, ord, i, nodes, collected, next_rank) ==
    IF i > Len(ord) THEN [collected |-> collected, next_rank |-> next_rank]
    ELSE LET n == ord[i] IN
         IF n \in nodes /\ Consumers(g, n) \subseteq collected
         THEN RankPass(g, ord, i + 1, nodes, collected \cup {n}, next_rank \cup {n})
         ELSE RankPass(g, ord, i + 1, nodes, collected, next_rank)

\* A loop that pushes all that is collected so far as the rank of a pass.
RECURSIVE RankLoopPushingCollected(_, _, _, _, _)
RankLoopPushingCollected(g, ord, nodes, collected, ranks) ==
    IF nodes = {} THEN [ranks |-> ranks, diverges |-> FALSE]
    ELSE LET pass == RankPass(g, ord, 1, nodes, collected, {}) IN
         IF pass.next_rank = {}
         THEN [ranks |-> Append(ranks, {}), diverges |-> TRUE]
         ELSE RankLoopPushingCollected(g, ord, nodes \ pass.next_rank, pass.collected,
                                       Append(ranks, pass.collected))

\* The `while !nodes.is_empty()` loop.  A pass that collects nothing leaves
\* nodes and collected as they were, so every later pass does the same: the
\* loop never ends (diverges), pushing empty ranks.
RECURSIVE RankLoop(_, _, _, _, _)
RankLoop(g, ord, nodes, collected, ranks) ==
    IF nodes = {} THEN [ranks |-> ranks, diverges |-> FALSE]
    ELSE LET pass == RankPass(g, ord, 1, nodes, collected, {}) IN
         IF pass.next_rank = {}
         THEN [ranks |-> Append(ranks, {}), diverges |-> TRUE]
         ELSE RankLoop(g, ord, nodes \ pass.next_rank, pass.collected,
                       Append(ranks, pass.next_rank))

ranks_from_end(g, ord) ==
    LET inputs == InputNodes(g)
        outputs == OutputNodes(g)
        nodes == (NodeIndices(g) \ inputs) \ outputs
        r == RankLoop(g, ord, nodes, outputs, <<>>)
    IN [inputs |-> inputs, ranks |-> r.ranks, outputs |-> outputs,
        diverges |-> r.diverges]

\* The iteration orders a HashMap over the interior nodes can have
MapOrders(g) == Perms(InteriorNodes(g))

----------------------------------------------------------------------------
(* monoidal.rs: MonoidalOp, Slice, permutation_to_swaps, Wiring.  A slice is *)
(* the sequence of its ops; the address prefix paired with each op is left  *)
(* out, no arity depends on it.                                             *)

Copy(n) == [kind |-> "Copy", copies |-> n]
ID == Copy(1)
DELETE == Copy(0)
Swap == [kind |-> "Swap"]
Operation(n) == [kind |-> "Operation", inputs |-> n]
Thunk(a, b) == [kind |-> "Thunk", args |-> a, body |-> b, expanded |-> TRUE]

\* MonoidalOp::number_of_inputs.  body.inputs - args is a usize subtraction:
\* a negative value here stands for the overflow (a panic in a debug build,
\* 2^64 + the value in a release build).
OpInputs(op) ==
    CASE op.kind = "Copy" -> 1
      [] op.kind = "Operation" -> op.inputs
      [] op.kind = "Thunk" -> op.body.inputs - op.args
      [] op.kind = "Swap" -> 2

\* MonoidalOp::number_of_outputs
OpOutputs(op) ==
    CASE op.kind = "Copy" -> op.copies
      [] op.kind = "Operation" -> 1
      [] op.kind = "Thunk" -> 1
      [] op.kind = "Swap" -> 2

\* Slice::number_of_inputs, Slice::number_of_outputs
SliceInputs(sl) == SumSeq([k \in 1..Len(sl) |-> OpInputs(sl[k])])
SliceOutputs(sl) == SumSeq([k \in 1..Len(sl) |-> OpOutputs(sl[k])])

\* Vec::swap(i, i + 1), i counted from 0
SwapAt(perm, i) ==
    [k \in 1..Len(perm) |->
        IF k = i + 1 THEN perm[i + 2] ELSE IF k = i + 2 THEN perm[i + 1] ELSE perm[k]]

\* A pass that exchanges the wires but records an identity for the exchange.
RECURSIVE ScanPassForgetsSwap(_, _, _, _)
ScanPassForgetsSwap(perm, i, slice_ops, finished) ==
    IF i + 1 < Len(perm)
    THEN IF perm[i + 1] <= perm[i + 2]
         THEN ScanPassForgetsSwap(perm, i + 1, Append(slice_ops, ID), finished)
         ELSE ScanPassForgetsSwap(SwapAt(perm, i), i + 1,
                                  Append(slice_ops, ID), FALSE)
    ELSE [permutation |-> perm,
          slice_ops |-> IF i + 1 = Len(perm) THEN Append(slice_ops, ID) ELSE slice_ops,
          finished |-> finished]

\* A pass that also exchanges two equal neighbours.
RECURSIVE ScanPassStrict(_, _, _, _)
ScanPassStrict(perm, i, slice_ops, finished) ==
    IF i + 1 < Len(perm)
    THEN IF perm[i + 1] < perm[i + 2]
         THEN ScanPassStrict(perm, i + 1, Append(slice_ops, ID), finished)
         ELSE ScanPassStrict(SwapAt(perm, i), i + 2, Append(slice_ops, Swap), FALSE)
    ELSE [permutation |-> perm,
          slice_ops |-> IF i + 1 = Len(perm) THEN Append(slice_ops, ID) ELSE slice_ops,
          finished |-> finished]

\* One pass of the outer loop of permutation_to_swaps: the inner
\* `while i + 1 < permutation.len()` from window i (counted from 0) on, then
\* the trailing identity wire.
RECURSIVE ScanPass(_, _, _, _)
ScanPass(perm, i, slice_ops, finished) ==
    IF i + 1 < Len(perm)
    THEN IF perm[i + 1] <= perm[i + 2]
         THEN ScanPass(perm, i + 1, Append(slice_ops, ID), finished)
         ELSE ScanPass(SwapAt(perm, i), i + 2, Append(slice_ops, Swap), FALSE)
    ELSE [permutation |-> perm,
          slice_ops |-> IF i + 1 = Len(perm) THEN Append(slice_ops, ID) ELSE slice_ops,
          finished |-> finished]

\* The `while !finished` loop: a pass that swapped something is pushed.
RECURSIVE SwapLoop(_, _)
SwapLoop(perm, slices) ==
    LET pass == ScanPass(perm, 0, <<>>, TRUE) IN
    IF pass.finished THEN slices
    ELSE SwapLoop(pass.permutation, Append(slices, pass.slice_ops))

\* Slice::permutation_to_swaps
permutation_to_swaps(permutation) == SwapLoop(permutation, <<>>)

\* Wiring::new
NewWiring(inputs) == [forward |-> [k \in 1..inputs |-> {}], backward |-> <<>>]

\* Wiring::add_wire
add_wire(w, input) ==
    [forward |-> [w.forward EXCEPT ![input + 1] = @ \cup {Len(w.backward)}],
     backward |-> Append(w.backward, input)]

\* A to_slices that leaves the slices in the order they were pushed.
to_slices_as_pushed(w) ==
    LET slices == permutation_to_swaps(w.backward)
        copy_slice == [k \in 1..Len(w.forward) |-> Copy(Cardinality(w.forward[k]))]
        is_empty == \A k \in 1..Len(w.forward) : Cardinality(w.forward[k]) = 1
    IN IF ~is_empty THEN Append(slices, copy_slice) ELSE slices

\* Wiring::to_slices
to_slices(w) ==
    LET slices == permutation_to_swaps(w.backward)
        copy_slice == [k \in 1..Len(w.forward) |-> Copy(Cardinality(w.forward[k]))]
        is_empty == \A k \in 1..Len(w.forward) : Cardinality(w.forward[k]) = 1
    IN Reverse(IF ~is_empty THEN Append(slices, copy_slice) ELSE slices)

----------------------------------------------------------------------------
(* monoidal.rs: MonoidalWiredOp, MonoidalWiredGraph::from_hypergraph *)

IdOp(port) == [kind |-> "Id", port |-> port]
WiredOperation(ins) == [kind |-> "Operation", inputs |-> ins]
WiredThunk(ins, a, b) == [kind |-> "Thunk", inputs |-> ins, args |-> a, body |-> b]
\* OpData.op = None, for an Input or Output node
NoOp == [kind |-> "None"]
\* the `?` on the recursive call for a thunk body: the error that call returned
ErrOp(e) == [kind |-> "Err", result |-> e]

\* MonoidalWiredOp::input_ports, and unwrap_or_default for None
input_ports(op) ==
    CASE op.kind = "Id" -> <<op.port>>
      [] op.kind = "Operation" -> op.inputs
      [] op.kind = "Thunk" -> op.inputs
      [] OTHER -> <<>>

\* OpData.weight: a Ratio<usize>; usize::MAX.into() is above every sum of wire
\* positions and is kept as a flag.
Ratio(n, d) == [max |-> FALSE, num |-> n, den |-> d]
MaxRatio == [max |-> TRUE, num |-> 0, den |-> 1]
RatioLess(a, b) == ~a.max /\ (b.max \/ a.num * b.den < b.num * a.den)

\* ops.sort_by_key(|data| data.weight): a stable sort
InsertByWeight(sorted, d) ==
    LET pos == Cardinality({j \in 1..Len(sorted) : ~RatioLess(d.weight, sorted[j].weight)})
    IN SubSeq(sorted, 1, pos) \o <<d>> \o SubSeq(sorted, pos + 1, Len(sorted))

RECURSIVE SortByWeight(_, _)
SortByWeight(ops, acc) ==
    IF ops = <<>> THEN acc ELSE SortByWeight(Tail(ops), InsertByWeight(acc, Head(ops)))

\* Iterating a HashSet<NodeIndex>: `it`, a sequence holding every node of the
\* graph once, gives the order in which a set yields its members.
SetOrder(S, it) == SelectSeq(it, LAMBDA x : x \in S)
SetOrders(g) == Perms(NodeIndices(g))

\* The thunk bodies of this model hold at most one node in each set that
\* from_hypergraph and ranks_from_end iterate, so the order is the only one.
AnyOrder(S) == CHOOSE p \in Perms(S) : TRUE

\* The first loop of a rank: an Id op for each open wire whose node is not in r
IdOps(open_wires, r) ==
    LET all == [i \in 1..Len(open_wires) |->
                   [op |-> IdOp(open_wires[i]), outputs |-> 1,
                    node |-> open_wires[i].node, weight |-> Ratio(i - 1, 1)]]
    IN SelectSeq(all, LAMBDA d : d.node \notin r)

RECURSIVE from_hypergraph(_, _, _)

\* The Thunk arm of the match: `?` hands on the error of the recursive call
ThunkOp(ins, args, b) ==
    IF b.result = "Ok" THEN WiredThunk(ins, args, b.graph) ELSE ErrOp(b.result)

\* The match on graph.get(node)
NodeOp(g, node, data) ==
    CASE data.kind = "Weight" -> WiredOperation(get_inputs(g, node))
      [] data.kind = "Input" -> NoOp
      [] data.kind = "Output" -> NoOp
      [] data.kind = "Thunk" ->
           ThunkOp(get_inputs(g, node), data.args,
                   from_hypergraph(data.body, AnyOrder(InteriorNodes(data.body)),
                                   AnyOrder(NodeIndices(data.body))))

\* `weight`, from the fold over the open wires of the node
NodeWeight(sum, count) == IF count = 0 THEN MaxRatio ELSE Ratio(sum, count)

\* The body of the second loop of a rank, for one node of r
NodeOpData(g, node, open_wires) ==
    [op |-> NodeOp(g, node, get_info(g, node).data),
     outputs |-> number_of_outputs(g, node),
     node |-> node,
     weight |-> NodeWeight(
         SumSeq([i \in 1..Len(open_wires) |->
                    IF open_wires[i].node = node THEN i - 1 ELSE 0]),
         SumSeq([i \in 1..Len(open_wires) |->
                    IF open_wires[i].node = node THEN 1 ELSE 0]))]

RankOps(g, r, open_wires, it) ==
    LET rs == SetOrder(r, it) IN
    IdOps(open_wires, r) \o [k \in 1..Len(rs) |-> NodeOpData(g, rs[k], open_wires)]

\* The ports the sorted ops offer, in order: the keys of out_nodes, each at
\* its position
OutPorts(ops) ==
    Flatten([k \in 1..Len(ops) |-> [j \in 1..ops[k].outputs |-> Port(ops[k].node, j - 1)]])

\* out_nodes.get(&p): collecting into the BTreeMap, a later entry for the same
\* port replaces the earlier one
OutNodesHas(ports, p) == \E x \in 1..Len(ports) : ports[x] = p
OutNodesGet(ports, p) ==
    (CHOOSE x \in 1..Len(ports) :
        ports[x] = p /\ \A y \in (x + 1)..Len(ports) : ports[y] # p) - 1

\* `for p in open_wires { wiring.add_wire(out_nodes.get(&p).ok_or(UnknownPort)?) }`
RECURSIVE AddWires(_, _, _, _)
AddWires(wiring, ports, open_wires, i) ==
    IF i > Len(open_wires) THEN [result |-> "Ok", wiring |-> wiring]
    ELSE IF ~OutNodesHas(ports, open_wires[i]) THEN [result |-> "UnknownPort"]
    ELSE AddWires(add_wire(wiring, OutNodesGet(ports, open_wires[i])),
                  ports, open_wires, i + 1)

RECURSIVE LowerRanks(_, _, _, _, _, _)

\* The end of the body of `for r in ranks`, once the wiring w is built: the
\* next open wires, the slice (if every op is Some) and the wiring
PushRank(g, ranks, it, slices, wirings, ops, w) ==
    IF w.result # "Ok" THEN [result |-> w.result]
    ELSE LowerRanks(g, Tail(ranks), it,
                    Flatten([k \in 1..Len(ops) |-> input_ports(ops[k].op)]),
                    IF \A k \in 1..Len(ops) : ops[k].op.kind # "None"
                    THEN Append(slices, [k \in 1..Len(ops) |-> ops[k].op])
                    ELSE slices,
                    Append(wirings, w.wiring))

\* out_nodes and the wiring of a rank, from its sorted ops
WireRank(g, ranks, it, open_wires, slices, wirings, ops, ports) ==
    PushRank(g, ranks, it, slices, wirings, ops,
             AddWires(NewWiring(Len(ports)), ports, open_wires, 1))

\* The body of `for r in ranks` from the ops of the rank, unsorted: the first
\* error of a thunk body ends the call
LowerRank(g, ranks, it, open_wires, slices, wirings, unsorted) ==
    IF \E k \in 1..Len(unsorted) : unsorted[k].op.kind = "Err"
    THEN [result |->
            unsorted[CHOOSE k \in 1..Len(unsorted) :
                        /\ unsorted[k].op.kind = "Err"
                        /\ \A j \in 1..(k - 1) : unsorted[j].op.kind # "Err"].op.result]
    ELSE WireRank(g, ranks, it, open_wires, slices, wirings,
                  SortByWeight(unsorted, <<>>),
                  OutPorts(SortByWeight(unsorted, <<>>)))

\* `for r in ranks`: slices and wirings grow from the output boundary
LowerRanks(g, ranks, it, open_wires, slices, wirings) ==
    IF ranks = <<>> THEN [result |-> "Ok", slices |-> slices, wirings |-> wirings]
    ELSE LowerRank(g, ranks, it, open_wires, slices, wirings,
                   RankOps(g, Head(ranks), open_wires, it))

\* The value from_hypergraph returns, from what the loop over the ranks left
WiredGraph(input_wires, l) ==
    IF l.result # "Ok" THEN [result |-> l.result]
    ELSE [result |-> "Ok",
          graph |-> [inputs |-> input_wires,
                     slices |-> Reverse(l.slices),
                     wirings |-> Reverse(l.wirings)]]

\* input_wires and output_wires, over the sets in the order `it`
InputWires(g, ins) == SumSeq([k \in 1..Len(ins) |-> number_of_outputs(g, ins[k])])
OutputWires(g, outs) == Flatten([k \in 1..Len(outs) |-> get_inputs(g, outs[k])])

\* MonoidalWiredGraph::from_hypergraph, from the value rk that its call of
\* ranks_from_end returned.  ranks_from_end may never return, and then
\* neither does this call.
FromHypergraphWith(g, rk, it) ==
    IF rk.diverges THEN [result |-> "diverges"]
    ELSE WiredGraph(InputWires(g, SetOrder(rk.inputs, it)),
                    LowerRanks(g, Append(rk.ranks, rk.inputs), it,
                               OutputWires(g, SetOrder(rk.outputs, it)), <<>>, <<>>))

from_hypergraph(g, ord, it) == FromHypergraphWith(g, ranks_from_end(g, ord), it)

\* What ranks_from_end can return on g, over the orders of its map
RankResults(g) == {ranks_from_end(g, ord) : ord \in MapOrders(g)}

\* The sets from_hypergraph iterates are the outputs, each rank and the
\* inputs, each a HashSet with an order of its own.  Orders that differ only
\* between members of different sets give the same run: one sequence stands
\* for them, the one that lists the sets in this order.
SetRank(rk, n) ==
    IF n \in rk.outputs THEN 0
    ELSE IF n \in rk.inputs THEN Len(rk.ranks) + 1
    ELSE CHOOSE k \in 1..Len(rk.ranks) : n \in rk.ranks[k]

SetOrdersOf(g, rk) ==
    IF rk.diverges THEN {AnyOrder(NodeIndices(g))}
    ELSE {it \in SetOrders(g) :
             \A i, j \in 1..Len(it) : i < j => SetRank(rk, it[i]) <= SetRank(rk, it[j])}

----------------------------------------------------------------------------
(* monoidal.rs: to_monoidal_op, to_slice, to_graph *)

RECURSIVE to_graph(_)

\* MonoidalWiredOp::to_monoidal_op
to_monoidal_op(op) ==
    CASE op.kind = "Id" -> ID
      [] op.kind = "Operation" -> Operation(Len(op.inputs))
      [] op.kind = "Thunk" -> Thunk(op.args, to_graph(op.body))

\* WiredSlice::to_slice
to_slice(ws) == [k \in 1..Len(ws) |-> to_monoidal_op(ws[k])]

\* itertools interleave: the two sequences take turns; once one is at its
\* end the other is yielded to its end
RECURSIVE Interleave(_, _)
Interleave(a, b) == IF a = <<>> THEN b ELSE <<Head(a)>> \o Interleave(b, Tail(a))

\* MonoidalWiredGraph::to_graph
to_graph(wg) ==
    LET wiring_slices == [k \in 1..Len(wg.wirings) |-> to_slices(wg.wirings[k])]
        op_slices == [k \in 1..Len(wg.slices) |-> <<to_slice(wg.slices[k])>>]
    IN [inputs |-> wg.inputs, slices |-> Flatten(Interleave(wiring_slices, op_slices))]

----------------------------------------------------------------------------
(* hypergraph/reachability.rs: NReachable.  The graph walked is a sequence  *)
(* of wires <<source, target>>, one for each target of each output edge.    *)

\* Option<Node>: None and Some(n)
None == <<>>
Some(n) == <<n>>

\* itertools unique(): the first occurrence of each item, in order
Unique(s) ==
    LET first == {i \in 1..Len(s) : \A j \in 1..(i - 1) : s[j] # s[i]}
    IN [k \in 1..Cardinality(first) |->
           s[CHOOSE i \in first : Cardinality({j \in first : j <= i}) = k]]

\* self.outputs().flat_map(|edge| edge.targets().flatten())
EdgeTargets(wires, n) ==
    LET from_n == SelectSeq(wires, LAMBDA w : w[1] = n)
    IN [k \in 1..Len(from_n) |-> from_n[k][2]]

\* self.inputs().filter_map(|edge| edge.source())
EdgeSources(wires, n) ==
    LET to_n == SelectSeq(wires, LAMBDA w : w[2] = n)
    IN [k \in 1..Len(to_n) |-> to_n[k][1]]

\* Node::successors
successors(wires, n) == Unique(EdgeTargets(wires, n))

\* Node::predecessors
predecessors(wires, n) == Unique(EdgeSources(wires, n))

\* the field next_nodes: boxed_sucessors or boxed_predecessors
next_nodes(r, n) ==
    IF r.forward THEN successors(r.wires, n) ELSE predecessors(r.wires, n)

\* NReachable::forward_from_n and backward_from_n (forward_reachable_n and
\* backward_reachable_n for a single start node), with `yielded`, the items
\* its next() has returned, `returned`, what the last call of next() returned,
\* and `called`: next() was called since creation or the last change of the
\* limit
NewReachable(wires, start, forward, depth_limit) ==
    [wires |-> wires, start |-> start, forward |-> forward,
     depth_limit |-> depth_limit,
     seen |-> {},
     frontier |-> [k \in 1..Len(start) |-> <<0, start[k]>>],
     yielded |-> <<>>, returned |-> None, called |-> FALSE, bumps |-> 0,
     increase |-> 0, overflow_checks |-> FALSE, panicked |-> FALSE]

\* The entries next() appends for the popped (d, node): its next nodes that
\* are not in seen, each at depth d + 1
Discovered(r, d, node, seen) ==
    LET found == SelectSeq(next_nodes(r, node), LAMBDA x : x \notin seen)
    IN [k \in 1..Len(found) |-> <<d + 1, found[k]>>]

\* A next() whose stalled arm does not push the entry back.
next_dropping_stalled(r) ==
    IF r.frontier = <<>> THEN [r EXCEPT !.returned = None, !.called = TRUE]
    ELSE IF Head(r.frontier)[1] > r.depth_limit
    THEN [r EXCEPT !.frontier = Tail(r.frontier), !.returned = None,
                   !.called = TRUE]
    ELSE [r EXCEPT
            !.seen = r.seen \cup {Head(r.frontier)[2]},
            !.frontier = Tail(r.frontier) \o
                Discovered(r, Head(r.frontier)[1], Head(r.frontier)[2],
                           r.seen \cup {Head(r.frontier)[2]}),
            !.yielded = Append(r.yielded, Head(r.frontier)[2]),
            !.returned = Some(Head(r.frontier)[2]),
            !.called = TRUE]

\* A next() that puts the discovered entries at the front of the frontier.
next_pushing_front(r) ==
    IF r.frontier = <<>> THEN [r EXCEPT !.returned = None, !.called = TRUE]
    ELSE IF Head(r.frontier)[1] > r.depth_limit
    THEN [r EXCEPT !.frontier = <<Head(r.frontier)>> \o Tail(r.frontier),
                   !.returned = None, !.called = TRUE]
    ELSE [r EXCEPT
            !.seen = r.seen \cup {Head(r.frontier)[2]},
            !.frontier =
                Discovered(r, Head(r.frontier)[1], Head(r.frontier)[2],
                           r.seen \cup {Head(r.frontier)[2]}) \o Tail(r.frontier),
            !.yielded = Append(r.yielded, Head(r.frontier)[2]),
            !.returned = Some(Head(r.frontier)[2]),
            !.called = TRUE]

\* Iterator::next for NReachable
next(r) ==
    IF r.frontier = <<>> THEN [r EXCEPT !.returned = None, !.called = TRUE]
    ELSE IF Head(r.frontier)[1] > r.depth_limit
    THEN [r EXCEPT !.frontier = <<Head(r.frontier)>> \o Tail(r.frontier),
                   !.returned = None, !.called = TRUE]
    ELSE [r EXCEPT
            !.seen = r.seen \cup {Head(r.frontier)[2]},
            !.frontier = Tail(r.frontier) \o
                Discovered(r, Head(r.frontier)[1], Head(r.frontier)[2],
                           r.seen \cup {Head(r.frontier)[2]}),
            !.yielded = Append(r.yielded, Head(r.frontier)[2]),
            !.returned = Some(Head(r.frontier)[2]),
            !.called = TRUE]

\* usize::MAX
UsizeMax == 2^UsizeBits - 1

\* NReachable::increase_depth_limit.  `self.depth_limit += n` on usize: when
\* the sum does not fit, a build with overflow checks panics and a build
\* without them keeps the sum modulo 2^w.
increase_depth_limit(r, n) ==
    IF r.depth_limit + n > UsizeMax /\ r.overflow_checks
    THEN [r EXCEPT !.panicked = TRUE, !.called = FALSE, !.bumps = r.bumps + 1,
                   !.increase = n]
    ELSE [r EXCEPT !.depth_limit = (r.depth_limit + n) % (UsizeMax + 1),
                   !.called = FALSE, !.bumps = r.bumps + 1, !.increase = n]

\* NReachable::bump_depth_limit
bump_depth_limit(r) == increase_depth_limit(r, 1)

----------------------------------------------------------------------------
(* hypergraph/adapter/collapse.rs: CollapseGraph.  The wrapped graph is     *)
(* given by the kind of each node (Operation or Thunk), its backlink (the   *)
(* thunk that holds it, None at top level) and, for each node, the edge it   *)
(* is the source of.                                                        *)

\* CollapseGraph::new, with `log`, the last calls on it
\* `expanded` is the map that self.expanded points to; `heap` holds the
\* live Arc allocations, `arc` is the one self.expanded points to, and
\* `views` are the Arcs that views made of the graph hold, each with the
\* map it pointed to when the view was made.
NewCollapseGraph(kinds, backlinks, expanded) ==
    [kinds |-> kinds, backlinks |-> backlinks, expanded |-> expanded, log |-> <<>>,
     arc |-> 1, heap |-> <<expanded>>, views |-> <<>>]

\* the thunks of the wrapped graph: the keys of the expansion map
Thunks(kinds) == {n \in 1..Len(kinds) : kinds[n] = "Thunk"}

\* node.backlink()
backlink(c, n) == c.backlinks[n]

\* self.edge.source(), for the edge whose source is node e
InnerSource(c, e) == Some(e)

\* self.edge.targets(), for the edge whose source is node e: every other node
\* and one target that is no node
InnerTargets(c, e) ==
    LET others == SelectSeq([n \in 1..Len(c.kinds) |-> n], LAMBDA n : n # e)
    IN [k \in 1..Len(others) |-> Some(others[k])] \o <<None>>

\* self.graph.nodes(): the nodes at top level, and thunk.nodes(): the nodes
\* held by the thunk, in order
InnerNodes(c, holder) ==
    SelectSeq([n \in 1..Len(c.kinds) |-> n], LAMBDA n : backlink(c, n) = holder)

\* what toggle and set_all remember of a call
Logged(c, call) ==
    IF Len(c.log) < MaxLog THEN Append(c.log, call)
    ELSE Append(Tail(c.log), call)

\* The allocations that an Arc points to
LiveArcs(c) == {c.arc} \cup {c.views[i].arc : i \in 1..Len(c.views)}

\* the name of a live allocation when the allocations that no Arc points to
\* are freed: its place, by age, among the live ones
Renamed(c, a) == Cardinality({b \in LiveArcs(c) : b <= a})

\* Drop for Arc: an allocation that no Arc points to is freed
DropArcs(c) ==
    LET kept == SelectSeq([a \in 1..Len(c.heap) |-> a], LAMBDA a : a \in LiveArcs(c))
    IN [c EXCEPT !.heap = [k \in 1..Len(kept) |-> c.heap[kept[k]]],
                 !.arc = Renamed(c, c.arc),
                 !.views = [i \in 1..Len(c.views) |->
                               [c.views[i] EXCEPT !.arc = Renamed(c, c.views[i].arc)]]]

\* An install that writes the map into the allocation self.expanded points to.
InstallInPlace(c, map, call) ==
    [c EXCEPT !.expanded = map,
              !.heap = [c.heap EXCEPT ![c.arc] = map],
              !.log = Logged(c, call)]

\* self.expanded = Arc::new(expanded): a new allocation holds the map and
\* the Arc that self.expanded was is dropped
Install(c, map, call) ==
    DropArcs([c EXCEPT !.expanded = map,
                       !.heap = Append(c.heap, map),
                       !.arc = Len(c.heap) + 1,
                       !.log = Logged(c, call)])

\* A toggle that folds the thunk whatever its flag was.
toggle_folding(c, thunk) ==
    Install(c, [c.heap[c.arc] EXCEPT ![thunk] = FALSE],
            [op |-> "toggle", thunk |-> thunk, before |-> c.expanded])

\* CollapseGraph::toggle
toggle(c, thunk) ==
    Install(c, [c.heap[c.arc] EXCEPT ![thunk] = (c.heap[c.arc][thunk] # TRUE)],
            [op |-> "toggle", thunk |-> thunk, before |-> c.expanded])

\* CollapseGraph::set_all
set_all(c, value) ==
    Install(c, [t \in DOMAIN c.heap[c.arc] |-> value],
            [op |-> "set_all", value |-> value, before |-> c.expanded])

\* self.expanded.clone(), as nodes(), graph_inputs(), graph_outputs() and
\* CollapseGraph::clone do for the view they make
clone_expanded(c) ==
    [c EXCEPT !.views = Append(c.views, [arc |-> c.arc, expanded |-> c.heap[c.arc]])]

\* CollapseOperation and CollapseThunk, each around a node of the wrapped graph
CollapseOperation(node) == [kind |-> "Operation", node |-> node]
CollapseThunk(thunk) == [kind |-> "Thunk", node |-> thunk]

\* A constructor that shows a thunk as a thunk whatever its flag is.
NewCollapseNodeUnfolded(c, node) ==
    IF c.kinds[node] = "Operation" THEN CollapseOperation(node)
    ELSE CollapseThunk(node)

\* CollapseNode::new
NewCollapseNode(c, node) ==
    IF c.kinds[node] = "Operation" THEN CollapseOperation(node)
    ELSE IF c.expanded[node] THEN CollapseThunk(node)
    ELSE CollapseOperation(node)

\* CollapseNode::into_inner
into_inner(cn) == cn.node

\* CollapseOperation::number_of_inputs and number_of_outputs: those of the
\* wrapped node, which inner_inputs and inner_outputs give for every node of
\* the wrapped graph
operation_number_of_inputs(inner_inputs, cn) == inner_inputs[cn.node]
operation_number_of_outputs(inner_outputs, cn) == inner_outputs[cn.node]

\* find_ancestor(&node, |thunk| !self.expanded[thunk])
RECURSIVE find_ancestor(_, _)
find_ancestor(c, node) ==
    IF backlink(c, node) = None THEN None
    ELSE IF ~c.expanded[backlink(c, node)[1]] THEN backlink(c, node)
    ELSE find_ancestor(c, backlink(c, node)[1])

\* the closure of CollapseEdge::targets for one target that is a node
CollapseTarget(c, node) ==
    IF find_ancestor(c, node) # None
    THEN NewCollapseNode(c, find_ancestor(c, node)[1])
    ELSE NewCollapseNode(c, node)

\* CollapseEdge::source
source(c, e) ==
    IF InnerSource(c, e) = None THEN None
    ELSE Some(NewCollapseNode(c, InnerSource(c, e)[1]))

\* CollapseEdge::targets
targets(c, e) ==
    [k \in 1..Len(InnerTargets(c, e)) |->
        IF InnerTargets(c, e)[k] = None THEN None
        ELSE Some(CollapseTarget(c, InnerTargets(c, e)[k][1]))]

\* CollapseGraph::nodes (holder = None) and CollapseThunk::nodes
nodes(c, holder) ==
    [k \in 1..Len(InnerNodes(c, holder)) |-> NewCollapseNode(c, InnerNodes(c, holder)[k])]

----------------------------------------------------------------------------
(* The graphs a caller builds *)

\* Ports a caller may name: every existing node and the key of the node being
\* created (which does not exist yet), every port index below MaxOutputs.
CallPorts(g) == {Port(n, i) : n \in 0..Len(g), i \in 0..(MaxOutputs - 1)}

Call(d, ins, outs) == [data |-> d, inputs |-> ins, output_ports |-> outs]

\* a sequence of add_node calls
RECURSIVE Build(_, _)
Build(g, calls) ==
    IF calls = <<>> THEN g
    ELSE Build(add_node(g, Head(calls).data, Head(calls).inputs,
                        Head(calls).output_ports).nodes,
               Tail(calls))

\* Thunk bodies: the body `plus` of examples.rs (two inputs into one
\* operation); a body that owns a thunk over a pass-through body; and the
\* default graph.
PassBody == Build(NewGraph, <<Call(InputNode, <<>>, 1),
                              Call(OutputNode, <<Port(0, 0)>>, 0)>>)
PlusBody == Build(NewGraph, <<Call(InputNode, <<>>, 2),
                              Call(WeightNode, <<Port(0, 0), Port(0, 1)>>, 1),
                              Call(OutputNode, <<Port(1, 0)>>, 0)>>)
NestedBody == Build(NewGraph, <<Call(InputNode, <<>>, 1),
                                Call(ThunkNode(0, PassBody), <<Port(0, 0)>>, 1),
                                Call(OutputNode, <<Port(1, 0)>>, 0)>>)

ThunkNodes == {ThunkNode(1, PlusBody), ThunkNode(0, NestedBody), ThunkNode(1, DefaultGraph)}

\* The calls of the model.  An Input node is given no inputs, an Output node
\* no output ports and a Thunk node one output port (the data model); a
\* Weight node any number of output ports up to MaxOutputs.
Calls(g) ==
    {Call(InputNode, <<>>, k) : k \in 0..MaxOutputs}
    \cup {Call(OutputNode, ins, 0) : ins \in SeqsUpTo(CallPorts(g), MaxInputs)}
    \cup {Call(WeightNode, ins, k) : ins \in SeqsUpTo(CallPorts(g), MaxInputs),
                                      k \in 0..MaxOutputs}

ThunkCalls(g) ==
    {Call(t, ins, 1) : t \in ThunkNodes, ins \in SeqsUpTo(CallPorts(g), MaxInputs)}

----------------------------------------------------------------------------
(* The construction phase (append-only), then the read-only phase.          *)
(* Spec: any add_node calls, failing ones too, and the rank computation.    *)
(* SpecLower: a construction whose calls all succeed (thunk nodes too), and *)
(* the monoidal synthesis.                                                  *)

\* no call of permutation_to_swaps is running
NoSwaps == [input |-> <<>>, permutation |-> <<>>, slices |-> <<>>, finished |-> TRUE]

\* no NReachable exists
NoReach == NewReachable(<<>>, <<>>, TRUE, 0)

\* no CollapseGraph exists
NoCollapse == NewCollapseGraph(<<>>, <<>>, <<>>)

\* no FreeVars exists
NoFree == [op |-> "none"]

\* no Wiring exists
NoWiring == NewWiring(0)

InitGraph ==
    /\ graph = NewGraph
    /\ failures = 0
    /\ last = [op |-> "new", result |-> "Ok"]

Init ==
    /\ InitGraph
    /\ swaps = NoSwaps
    /\ reach = NoReach
    /\ collapse = NoCollapse
    /\ free = NoFree
    /\ curwiring = NoWiring

Building == last.op \in {"new", "add_node"}

\* one add_node call, drawn from calls
Add(calls) ==
    /\ Building
    /\ Len(graph) < MaxNodes
    /\ \E c \in calls :
          LET r == add_node(graph, c.data, c.inputs, c.output_ports) IN
          /\ r.result # "Ok" => failures < MaxFailures
          /\ graph' = r.nodes
          /\ failures' = IF r.result = "Ok" THEN failures ELSE failures + 1
          /\ last' = [op |-> "add_node", result |-> r.result]

AddNode == Add(Calls(graph)) /\ UNCHANGED <<swaps, reach, collapse, free, curwiring>>

AddNodeOk ==
    /\ Add({c \in Calls(graph) \cup ThunkCalls(graph) :
               add_node(graph, c.data, c.inputs, c.output_ports).result = "Ok"})
    /\ UNCHANGED <<swaps, reach, collapse, free, curwiring>>

RanksFromEnd ==
    /\ Building
    /\ \E ord \in MapOrders(graph) :
          LET r == ranks_from_end(graph, ord) IN
          last' = [op |-> "ranks_from_end",
                   result |-> IF r.diverges THEN "diverges" ELSE "Ok",
                   inputs |-> r.inputs, ranks |-> r.ranks, outputs |-> r.outputs]
    /\ UNCHANGED <<graph, failures, swaps, reach, collapse, free, curwiring>>

\* from_hypergraph(..)?.to_graph(..): what the caller is left with
Lowered(w) ==
    IF w.result = "Ok"
    THEN [op |-> "to_graph", result |-> "Ok", wired |-> w.graph, mono |-> to_graph(w.graph)]
    ELSE [op |-> "to_graph", result |-> w.result]

Synthesise ==
    /\ Building
    /\ \E rk \in RankResults(graph) : \E it \in SetOrdersOf(graph, rk) :
          last' = Lowered(FromHypergraphWith(graph, rk, it))
    /\ UNCHANGED <<graph, failures, swaps, reach, collapse, free, curwiring>>

Next == AddNode \/ RanksFromEnd

Spec == Init /\ [][Next]_vars

NextLower == AddNodeOk \/ Synthesise

SpecLower == Init /\ [][NextLower]_vars

----------------------------------------------------------------------------
(* Claims on the hypergraph core *)

\* C1: add_node is all-or-nothing: a call that returns UnknownNode or
\* UnknownPort leaves the graph exactly as it was before the call.
C1_AllOrNothing == [][failures' # failures => graph' = graph]_vars

\* The consumers recorded on the output ports of the nodes of rank i are
\* Output nodes or members of an earlier rank.
ConsumersCollectedBefore(g, res, i) ==
    \A n \in res.ranks[i] :
        Consumers(g, n) \subseteq
            (res.outputs \cup UNION {res.ranks[j] : j \in 1..(i - 1)})

\* C3: in the result of ranks_from_end every consumer of a node of ranks[i] is
\* an Output node or a member of some ranks[j] with j < i, so no rank holds a
\* node and one of its consumers.
C3_ConsumersInEarlierRanks ==
    (last.op = "ranks_from_end" /\ last.result = "Ok") =>
        \A i \in 1..Len(last.ranks) : ConsumersCollectedBefore(graph, last, i)

\* C4: the ranks that ranks_from_end returns partition the nodes that are
\* neither Input nor Output: each is in exactly one rank, no Input or Output
\* node is in a rank, and inputs and outputs are the Input and Output nodes.
C4_RanksPartition ==
    (last.op = "ranks_from_end" /\ last.result = "Ok") =>
        /\ \A n \in InteriorNodes(graph) :
              Cardinality({i \in 1..Len(last.ranks) : n \in last.ranks[i]}) = 1
        /\ \A i \in 1..Len(last.ranks) : last.ranks[i] \subseteq InteriorNodes(graph)
        /\ last.inputs = {n \in NodeIndices(graph) : get_info(graph, n).data = InputNode}
        /\ last.outputs = {n \in NodeIndices(graph) : get_info(graph, n).data = OutputNode}

\* C4 witness: a returned ranking of two ranks, beside an Input or Output node
C4_Witness ==
    /\ last.op = "ranks_from_end" /\ last.result = "Ok"
    /\ Len(last.ranks) >= 2
    /\ last.inputs \cup last.outputs # {}

----------------------------------------------------------------------------
(* Claims on the monoidal synthesis *)

\* Adjacent slices compose and the first slice takes the graph's inputs; the
\* same for the body of every thunk op of the graph.
RECURSIVE Composes(_)
Composes(mg) ==
    /\ \A i \in 1..(Len(mg.slices) - 1) :
          SliceOutputs(mg.slices[i]) = SliceInputs(mg.slices[i + 1])
    /\ Len(mg.slices) > 0 => SliceInputs(mg.slices[1]) = mg.inputs
    /\ \A i \in 1..Len(mg.slices) : \A k \in 1..Len(mg.slices[i]) :
          mg.slices[i][k].kind = "Thunk" => Composes(mg.slices[i][k].body)

\* C2: every MonoidalGraph that from_hypergraph followed by to_graph produces
\* has slices[i].number_of_outputs() = slices[i+1].number_of_inputs() for
\* every adjacent pair, and slices[0].number_of_inputs() = inputs.
C2_ArityComposition ==
    (last.op = "to_graph" /\ last.result = "Ok") => Composes(last.mono)

----------------------------------------------------------------------------
(* Slice::permutation_to_swaps, one pass of its outer loop at a time *)

\* the permutations of 0..n-1 for n up to MaxWires, and the sequences of up to
\* MaxWires entries of 0..MaxValue (a wire may be used more than once)
SwapInputs ==
    UNION {PermSeqs(0..(n - 1)) : n \in 0..MaxWires}
        \cup SeqsUpTo(0..MaxValue, MaxWires)

\* entry to permutation_to_swaps: `slices` is empty, `finished` is false
InitPerm ==
    /\ InitGraph
    /\ reach = NoReach
    /\ collapse = NoCollapse
    /\ free = NoFree
    /\ curwiring = NoWiring
    /\ \E p \in SwapInputs :
          swaps = [input |-> p, permutation |-> p, slices |-> <<>>,
                   finished |-> FALSE]

\* one iteration of `while !finished`
Pass ==
    /\ ~swaps.finished
    /\ LET pass == ScanPass(swaps.permutation, 0, <<>>, TRUE) IN
          swaps' = [input |-> swaps.input,
                    permutation |-> pass.permutation,
                    slices |-> IF pass.finished THEN swaps.slices
                               ELSE Append(swaps.slices, pass.slice_ops),
                    finished |-> pass.finished]
    /\ UNCHANGED <<graph, failures, last, reach, collapse, free, curwiring>>

NextPerm == Pass

SpecPerm == InitPerm /\ [][NextPerm]_vars

----------------------------------------------------------------------------
(* Claims on permutation_to_swaps *)

\* The wires after one slice: an identity keeps the wire at its place, a Swap
\* exchanges the two wires at its place.
RECURSIVE ApplyOps(_, _, _)
ApplyOps(wires, ops, at) ==
    IF ops = <<>> THEN wires
    ELSE IF Head(ops) = Swap
         THEN ApplyOps(SwapAt(wires, at), Tail(ops), at + 2)
         ELSE ApplyOps(wires, Tail(ops), at + OpInputs(Head(ops)))

RECURSIVE ApplySlices(_, _)
ApplySlices(wires, slices) ==
    IF slices = <<>> THEN wires
    ELSE ApplySlices(ApplyOps(wires, Head(slices), 0), Tail(slices))

Identity(n) == [k \in 1..n |-> k - 1]

IsPermutation(p) == Range(p) = 0..(Len(p) - 1)

\* C5: for a permutation p of 0..n-1 the slices of permutation_to_swaps(p),
\* applied in emission order to p, give the identity ordering, and applied in
\* reverse order to the identity ordering give p; every slice spans the n
\* wires; [0,1] gives no slice, [1,0] the slice [Swap], and [1,2,0] the two
\* slices [Id,Swap] and [Swap,Id].
C5_RoundTrip ==
    (swaps.finished /\ IsPermutation(swaps.input)) =>
        /\ ApplySlices(swaps.input, swaps.slices) = Identity(Len(swaps.input))
        /\ ApplySlices(Identity(Len(swaps.input)), Reverse(swaps.slices)) = swaps.input
        /\ \A k \in 1..Len(swaps.slices) :
              SliceInputs(swaps.slices[k]) = Len(swaps.input)
        /\ swaps.input = <<0, 1>> => swaps.slices = <<>>
        /\ swaps.input = <<1, 0>> => swaps.slices = << <<Swap>> >>
        /\ swaps.input = <<1, 2, 0>> =>
              swaps.slices = << <<ID, Swap>>, <<Swap, ID>> >>

\* C5 witness: the call on [1,2,0] has returned its two slices
C5_Witness ==
    /\ swaps.finished
    /\ swaps.input = <<1, 2, 0>>
    /\ Len(swaps.slices) = 2

\* the pairs of wires that are out of order
Inversions(p) ==
    Cardinality({ij \in (1..Len(p)) \X (1..Len(p)) :
                    ij[1] < ij[2] /\ p[ij[1]] > p[ij[2]]})

\* C6 as stated: every emitted slice removes at least one inversion, and at
\* most n slices are emitted for an input of n wires.
C6_AtMostNSlices ==
    /\ Len(swaps.slices) + Inversions(swaps.permutation) <= Inversions(swaps.input)
    /\ Len(swaps.slices) <= Len(swaps.input)

\* C6: every emitted slice removes at least one inversion, so the call ends
\* after at most as many slices as its input has inversions, and a pass that
\* finds no inversion ends it.
C6_SlicesBoundedByInversions ==
    /\ Len(swaps.slices) + Inversions(swaps.permutation) <= Inversions(swaps.input)
    /\ Len(swaps.slices) <= (Len(swaps.input) * (Len(swaps.input) - 1)) \div 2
    /\ swaps.finished => Inversions(swaps.permutation) = 0

\* C6 witness: a call on 6 wires that has returned 7 slices
C6_Witness ==
    /\ swaps.finished
    /\ Len(swaps.input) = 6
    /\ Len(swaps.slices) = 7

----------------------------------------------------------------------------
(* NReachable: a caller creates the iterator, calls next() and raises the   *)
(* depth limit                                                              *)

\* the (source, target) pairs over the nodes, none from a node to itself
WirePairs == {w \in (0..(ReachNodes - 1)) \X (0..(ReachNodes - 1)) : w[1] # w[2]}

\* the place of a pair in the order the graph lists its wires
WireOrder(w) == w[1] * ReachNodes + w[2]

\* the graphs: up to MaxEdges wires, listed in order, a pair possibly more
\* than once (two edges of a node with the same target)
RECURSIVE WiresInOrder(_, _)
WiresInOrder(k, lowest) ==
    IF k = 0 THEN {<<>>}
    ELSE UNION {{<<w>> \o ws : ws \in WiresInOrder(k - 1, WireOrder(w))} :
                   w \in {p \in WirePairs : WireOrder(p) >= lowest}}

ReachGraphs == UNION {WiresInOrder(k, 0) : k \in 0..MaxEdges}

\* the start nodes handed to forward_from_n or backward_from_n
ReachStarts ==
    {st \in SeqsUpTo(0..(ReachNodes - 1), MaxStarts) :
        Len(st) >= 1 /\ Cardinality(Range(st)) = Len(st)}

InitReach ==
    /\ InitGraph
    /\ swaps = NoSwaps
    /\ collapse = NoCollapse
    /\ free = NoFree
    /\ curwiring = NoWiring
    /\ \E ws \in ReachGraphs, st \in ReachStarts, fw \in BOOLEAN, d \in 0..MaxDepth :
          reach = NewReachable(ws, st, fw, d)

ReachNext ==
    /\ reach' = next(reach)
    /\ UNCHANGED <<graph, failures, last, swaps, collapse, free, curwiring>>

IncreaseDepthLimit ==
    /\ reach.bumps < MaxBumps
    /\ \E n \in 2..MaxIncrease : reach' = increase_depth_limit(reach, n)
    /\ UNCHANGED <<graph, failures, last, swaps, collapse, free, curwiring>>

BumpDepthLimit ==
    /\ reach.bumps < MaxBumps
    /\ reach' = bump_depth_limit(reach)
    /\ UNCHANGED <<graph, failures, last, swaps, collapse, free, curwiring>>

NextReach == ReachNext \/ IncreaseDepthLimit \/ BumpDepthLimit

SpecReach == InitReach /\ [][NextReach]_vars

----------------------------------------------------------------------------
(* Claims on NReachable *)

\* C7: an NReachable, forward or backward, on any graph from any start nodes
\* with any depth limit, yields each node at most once.
C7_YieldsOnce ==
    \A i, j \in 1..Len(reach.yielded) :
        i < j => reach.yielded[i] # reach.yielded[j]

\* The iterator after calling next() until it returns None
RECURSIVE Drain(_)
Drain(r) == IF r.returned = None THEN r ELSE Drain(next(r))

\* A fresh iterator on the same graph from the same start nodes, with the
\* depth limit that r has now, drained
FreshDrained(r) ==
    Drain(next(NewReachable(r.wires, r.start, r.forward, r.depth_limit)))

\* C8: when next() returns None, after any raises of the depth limit, the
\* items yielded so far are exactly, in order, what a fresh traversal with the
\* present limit yields until it returns None, and the frontier and the seen
\* set are those of the fresh traversal: a stalled entry stays at the front of
\* the frontier and no discovered node is lost.
C8_Restartable ==
    (reach.called /\ reach.returned = None) =>
        /\ reach.yielded = FreshDrained(reach).yielded
        /\ reach.frontier = FreshDrained(reach).frontier
        /\ reach.seen = FreshDrained(reach).seen
        /\ reach.frontier # <<>> => Head(reach.frontier)[1] > reach.depth_limit

\* C8 witness: the limit was raised after a stall and the traversal, drained
\* again, has yielded a node of depth above the first limit
C8_Witness ==
    /\ reach.called /\ reach.returned = None
    /\ reach.bumps = 1
    /\ reach.depth_limit = 2
    /\ Len(reach.yielded) >= 3
    /\ reach.frontier # <<>>

----------------------------------------------------------------------------
(* CollapseGraph: a caller wraps a graph and folds and unfolds its thunks *)

\* the wrapped graphs: CollapseNodes nodes, each an Operation or a Thunk, each
\* at top level or held by a thunk listed before it
WrappedGraphs ==
    {kb \in [1..CollapseNodes -> {"Operation", "Thunk"}]
              \X [1..CollapseNodes -> {None} \cup {Some(t) : t \in 1..CollapseNodes}] :
        \A n \in 1..CollapseNodes :
            kb[2][n] # None => (kb[2][n][1] < n /\ kb[1][kb[2][n][1]] = "Thunk")}

InitCollapse ==
    /\ InitGraph
    /\ swaps = NoSwaps
    /\ reach = NoReach
    /\ free = NoFree
    /\ curwiring = NoWiring
    /\ \E kb \in WrappedGraphs : \E expanded \in [Thunks(kb[1]) -> BOOLEAN] :
          collapse = NewCollapseGraph(kb[1], kb[2], expanded)

Toggle ==
    /\ \E thunk \in DOMAIN collapse.expanded : collapse' = toggle(collapse, thunk)
    /\ UNCHANGED <<graph, failures, last, swaps, reach, free, curwiring>>

SetAll ==
    /\ \E value \in BOOLEAN : collapse' = set_all(collapse, value)
    /\ UNCHANGED <<graph, failures, last, swaps, reach, free, curwiring>>

NextCollapse == Toggle \/ SetAll

SpecCollapse == InitCollapse /\ [][NextCollapse]_vars

\* a view of the graph is made: it holds a clone of the Arc
CloneExpanded ==
    /\ Len(collapse.views) < MaxViews
    /\ collapse' = clone_expanded(collapse)
    /\ UNCHANGED <<graph, failures, last, swaps, reach, free, curwiring>>

NextViews == Toggle \/ SetAll \/ CloneExpanded

SpecViews == InitCollapse /\ [][NextViews]_vars

----------------------------------------------------------------------------
(* Claims on CollapseGraph *)

\* What the queries of a CollapseGraph answer: nodes() of the graph and of
\* each thunk, source() and targets() of each edge
Answers(c) ==
    [nodes |-> nodes(c, None),
     thunk_nodes |-> [t \in DOMAIN c.expanded |-> nodes(c, Some(t))],
     source |-> [e \in 1..Len(c.kinds) |-> source(c, e)],
     targets |-> [e \in 1..Len(c.kinds) |-> targets(c, e)]]

\* the last two calls were toggle(t) and toggle(t) for one thunk t
ToggledTwice ==
    /\ Len(collapse.log) = 2
    /\ collapse.log[1].op = "toggle" /\ collapse.log[2].op = "toggle"
    /\ collapse.log[1].thunk = collapse.log[2].thunk

\* C9: after toggle(t); toggle(t) the expansion map equals the one before the
\* two calls, so the CollapseGraph equals the un-toggled one, and nodes(),
\* source() and targets() answer as before the two calls.
C9_ToggleTwice ==
    ToggledTwice =>
        /\ collapse.expanded = collapse.log[1].before
        /\ Answers(collapse) = Answers([collapse EXCEPT !.expanded = collapse.log[1].before])
        /\ collapse.log[2].before # collapse.log[1].before

\* C9 witness: an unfolded thunk that holds a node was toggled twice
C9_Witness ==
    /\ ToggledTwice
    /\ collapse.expanded[collapse.log[1].thunk]
    /\ \E n \in 1..Len(collapse.kinds) :
          backlink(collapse, n) = Some(collapse.log[1].thunk)

\* the thunks that hold node n, directly or not
RECURSIVE Ancestors(_, _)
Ancestors(c, n) ==
    IF backlink(c, n) = None THEN {}
    ELSE {backlink(c, n)[1]} \cup Ancestors(c, backlink(c, n)[1])

\* C10: every target returned by CollapseEdge::targets() whose node lies in a
\* folded thunk is the innermost folded thunk that holds it, and no node
\* returned by targets() has an ancestor thunk whose expansion flag is false.
C10_NoTargetInFoldedRegion ==
    \A e \in 1..Len(collapse.kinds) : \A k \in 1..Len(targets(collapse, e)) :
        LET inner == InnerTargets(collapse, e)[k]
            out == targets(collapse, e)[k]
        IN inner # None =>
            /\ out # None
            /\ LET folded == {t \in Ancestors(collapse, inner[1]) : ~collapse.expanded[t]}
               IN folded # {} =>
                     /\ into_inner(out[1]) \in folded
                     /\ \A t \in folded :
                           into_inner(out[1]) \notin Ancestors(collapse, t)
            /\ \A t \in Ancestors(collapse, into_inner(out[1])) : collapse.expanded[t]

----------------------------------------------------------------------------
(* Claims on the errors of the synthesis *)

\* C11: from_hypergraph returns the EmptyGraph error for a graph with no
\* interior node (only Input and Output nodes, or no node at all), as the
\* default graph of one Input and one Output node; it never returns Ok there.
C11_EmptyGraphError ==
    (last.op = "to_graph" /\ InteriorNodes(graph) = {}) => last.result = "EmptyGraph"


\* C12: ranks_from_end fails fast: when a pass of its loop collects no node
\* while nodes remain, the call stops with a fatal error (an assertion); it
\* never goes on iterating and pushing ranks without end.
C12_RanksFailFast ==
    last.op = "ranks_from_end" => last.result \in {"Ok", "Fatal"}

----------------------------------------------------------------------------
(* Claims on the edges of the hypergraph *)

\* Every consumer entry (c, i) in output port (n, p) addresses an existing
\* node c whose input i is wired from (n, p).
ConsumersWired(g) ==
    \A n \in NodeIndices(g) : \A p \in 1..Len(get_info(g, n).outputs) :
        \A c \in get_info(g, n).outputs[p] :
            /\ HasNode(g, c.node)
            /\ c.index < number_of_inputs(g, c.node)
            /\ get_inputs(g, c.node)[c.index + 1] = Port(n, p - 1)

\* The output ports that list (c, i) as a consumer
SourcesOf(g, c, i) ==
    {Port(n, p - 1) : n \in NodeIndices(g), p \in 1..MaxOutputs} \cap
        {s \in CallPorts(g) : /\ HasNode(g, s.node)
                              /\ s.index < number_of_outputs(g, s.node)
                              /\ Port(c, i) \in get_info(g, s.node).outputs[s.index + 1]}

\* Every input port (c, i) has exactly one source port listing it, the port
\* its inputs entry names.
InputsSourced(g) ==
    \A c \in NodeIndices(g) : \A i \in 1..number_of_inputs(g, c) :
        SourcesOf(g, c, i - 1) = {get_inputs(g, c)[i]}

\* C13: after any sequence of add_node calls, successful or failing, the two
\* edge representations agree and nothing dangles: every consumer entry of an
\* output port addresses an existing node whose input is wired from that
\* port, and every input port has exactly one existing source port that
\* lists it.
C13_EdgesAgree == ConsumersWired(graph) /\ InputsSourced(graph)

\* The nodes reached from the set s of nodes by following consumer entries,
\* in up to k further steps
RECURSIVE ConsumersWithin(_, _, _)
ConsumersWithin(g, s, k) ==
    IF k = 0 THEN s
    ELSE ConsumersWithin(g, s \cup UNION {Consumers(g, m) : m \in s \cap NodeIndices(g)},
                         k - 1)

\* The transitive consumers of node n
TransitiveConsumers(g, n) == ConsumersWithin(g, Consumers(g, n), Len(g))

\* C14: the consumer relation is acyclic: no node has an input that refers to
\* the node itself (add_node rejects an input that names the node being
\* created), every consumer entry names a node index strictly greater than
\* the index of the producer, and no node is transitively its own consumer.
C14_Acyclic ==
    /\ \A n \in NodeIndices(graph) : \A i \in 1..number_of_inputs(graph, n) :
          get_inputs(graph, n)[i].node # n
    /\ \A n \in NodeIndices(graph) : \A c \in Consumers(graph, n) : c > n
    /\ \A n \in NodeIndices(graph) : n \notin TransitiveConsumers(graph, n)

\* C14 witness: a call that named a node not in the graph, as the node being
\* created, has been rejected, and the graph holds a chain of two consumer
\* entries
C14_Witness ==
    /\ last.op = "add_node" /\ last.result = "UnknownNode"
    /\ \E n \in NodeIndices(graph) : \E c \in Consumers(graph, n) :
          HasNode(graph, c) /\ Consumers(graph, c) # {}

----------------------------------------------------------------------------
(* free_vars.rs: FreeVars over the expressions of language.rs.  The cache   *)
(* self.0 is keyed by the address of an expression; the model keys it by    *)
(* the expression, so two equal expressions share an entry (they have the   *)
(* same variables).  `found` is the caller's set `vars`.                    *)

\* binds in a thunk body and in the outer expression
MaxBinds == 1
\* declared parameters of a thunk
MaxParams == 1

\* Value::Variable, Value::Op, Arg::Value, Arg::Thunk
Variable(v) == [kind |-> "Variable", var |-> v]
ValueOp(args) == [kind |-> "Op", args |-> args]
ArgValue(v) == [kind |-> "Value", value |-> v]
ArgThunk(d) == [kind |-> "Thunk", thunk |-> d]

\* Bind, Expr and Thunk, as far as FreeVars reads them
Bind(def, v) == [def |-> def, value |-> v]
Expr(binds, values) == [binds |-> binds, values |-> values]
LangThunk(args, body) == [args |-> args, body |-> body]

\* FreeVars::default and HashMap::insert on self.0
NewFreeVars == <<>>
CacheInsert(fv, e, found) ==
    [x \in (DOMAIN fv) \cup {e} |-> IF x = e THEN found ELSE fv[x]]

RECURSIVE expr(_, _)
RECURSIVE value(_, _, _)
RECURSIVE thunk(_, _, _)
RECURSIVE ArgsLoop(_, _, _, _)
RECURSIVE BindsLoop(_, _, _, _)
RECURSIVE ValuesLoop(_, _, _)

\* `for arg in args`, from entry i on
ArgNext(args, i, r) == ArgsLoop(r.fv, r.vars, args, i + 1)
ArgsLoop(fv, found, args, i) ==
    IF i > Len(args) THEN [fv |-> fv, vars |-> found]
    ELSE ArgNext(args, i, IF args[i].kind = "Value"
                          THEN value(fv, found, args[i].value)
                          ELSE thunk(fv, found, args[i].thunk))

\* FreeVars::value
value(fv, found, v) ==
    IF v.kind = "Variable"
    THEN [fv |-> fv, vars |-> found \cup {v.var}]
    ELSE ArgsLoop(fv, found, v.args, 1)

\* A thunk that passes on the variables of its body, its parameters too.
ThunkExtendKeepingArgs(fv, found, t) ==
    [fv |-> fv, vars |-> found \cup fv[t.body]]

\* vars.extend(self[&thunk.body].difference(&arg_set))
ThunkExtend(fv, found, t) ==
    [fv |-> fv, vars |-> found \cup (fv[t.body] \ Range(t.args))]

\* FreeVars::thunk
thunk(fv, found, t) == ThunkExtend(expr(fv, t.body), found, t)

\* `for bind in &expr.binds { self.value(&mut vars, &bind.value) }`
BindNext(binds, i, r) == BindsLoop(r.fv, r.vars, binds, i + 1)
BindsLoop(fv, found, binds, i) ==
    IF i > Len(binds) THEN [fv |-> fv, vars |-> found]
    ELSE BindNext(binds, i, value(fv, found, binds[i].value))

\* `for value in &expr.values { self.value(&mut vars, value) }`
ValuesLoop(r, values, i) ==
    IF i > Len(values) THEN r
    ELSE ValuesLoop(value(r.fv, r.vars, values[i]), values, i + 1)

\* the removal of every bind's variable, and self.0.insert(expr, vars)
ExprInsert(e, r) ==
    CacheInsert(r.fv, e, r.vars \ {e.binds[i].def : i \in 1..Len(e.binds)})

\* FreeVars::expr
expr(fv, e) == ExprInsert(e, ValuesLoop(BindsLoop(fv, {}, e.binds, 1), e.values, 1))

----------------------------------------------------------------------------
(* The expressions FreeVars is asked about: a thunk whose body binds up to  *)
(* MaxBinds variables and returns variables or an operation over a thunk;   *)
(* a bound value is a variable, an operation on a variable or an operation  *)
(* over a thunk whose body, in turn, binds and returns variables.           *)

VarOrder == <<"x", "y", "z">>
Vars == Range(VarOrder)

\* the variables of s, each once, in the order of VarOrder
RECURSIVE VarSeq(_, _)
VarSeq(s, i) ==
    IF i > Len(VarOrder) THEN <<>>
    ELSE (IF VarOrder[i] \in s THEN <<VarOrder[i]>> ELSE <<>>) \o VarSeq(s, i + 1)

Variables == {Variable(v) : v \in Vars}
VariableSeqs == {[i \in 1..Len(VarSeq(s, 1)) |-> Variable(VarSeq(s, 1)[i])] : s \in SUBSET Vars}
ParamSeqs == {VarSeq(s, 1) : s \in {s \in SUBSET Vars : Cardinality(s) <= MaxParams}}

InnerBinds == SeqsUpTo({Bind(d, v) : d \in Vars, v \in Variables}, MaxBinds)
InnerBodies == {Expr(b, vs) : b \in InnerBinds, vs \in VariableSeqs}
InnerThunks == {LangThunk(a, b) : a \in ParamSeqs, b \in InnerBodies}

ThunkOps == {ValueOp(<<ArgThunk(t)>>) : t \in InnerThunks}
BoundValues == Variables \cup {ValueOp(<<ArgValue(v)>>) : v \in Variables} \cup ThunkOps

OuterBinds == SeqsUpTo({Bind(d, v) : d \in Vars, v \in BoundValues}, MaxBinds)
OuterBodies ==
    {Expr(b, vs) : b \in OuterBinds, vs \in VariableSeqs}
    \cup {Expr(b, <<v>>) : b \in InnerBinds, v \in ThunkOps}
OuterThunks == {LangThunk(a, b) : a \in ParamSeqs, b \in OuterBodies}

InitFree ==
    /\ InitGraph
    /\ swaps = NoSwaps
    /\ reach = NoReach
    /\ collapse = NoCollapse
    /\ curwiring = NoWiring
    /\ \E t \in OuterThunks :
          free = [op |-> "default", thunk |-> t, cache |-> NewFreeVars, vars |-> {}]

\* free_vars.expr(&thunk.body) on a fresh FreeVars
FreeVarsExpr ==
    /\ free.op = "default"
    /\ free' = [free EXCEPT !.op = "expr", !.cache = expr(free.cache, free.thunk.body)]
    /\ UNCHANGED <<graph, failures, last, swaps, reach, collapse, curwiring>>

\* free_vars.thunk(&mut vars, &thunk) on a fresh FreeVars and an empty set
FreeVarsThunk ==
    /\ free.op = "default"
    /\ LET r == thunk(free.cache, free.vars, free.thunk) IN
          free' = [free EXCEPT !.op = "thunk", !.cache = r.fv, !.vars = r.vars]
    /\ UNCHANGED <<graph, failures, last, swaps, reach, collapse, curwiring>>

NextFree == FreeVarsExpr \/ FreeVarsThunk

SpecFree == InitFree /\ [][NextFree]_vars

----------------------------------------------------------------------------
(* Claims on the free variables *)

\* The free variables of a value and of an expression, by their definition:
\* a variable is free in itself, an operation has the free variables of its
\* value arguments and, for a thunk argument, those of the thunk's body less
\* the thunk's parameters; an expression has those of its bound values and of
\* its returned values, less the variables its binds define.
RECURSIVE FreeOfValue(_)
RECURSIVE FreeOfExpr(_)
FreeOfThunk(t) == FreeOfExpr(t.body) \ Range(t.args)
FreeOfValue(v) ==
    IF v.kind = "Variable" THEN {v.var}
    ELSE UNION {IF a.kind = "Value" THEN FreeOfValue(a.value) ELSE FreeOfThunk(a.thunk) :
                   a \in Range(v.args)}
FreeOfExpr(e) ==
    (UNION {FreeOfValue(b.value) : b \in Range(e.binds)}
        \cup UNION {FreeOfValue(v) : v \in Range(e.values)})
    \ {b.def : b \in Range(e.binds)}

\* C15: FreeVars gives an expression the union of the variables referenced in
\* its bound values and its returned values (a nested thunk contributing its
\* own free variables) minus the variables its binds define, and a thunk the
\* free variables of its body minus its declared parameters; a thunk with
\* parameters {x} whose body refers to {x, y, z} has the free variables {y, z}.
C15_FreeVars ==
    /\ free.op \in {"expr", "thunk"} =>
          \A e \in DOMAIN free.cache : free.cache[e] = FreeOfExpr(e)
    /\ free.op = "expr" =>
          /\ free.thunk.body \in DOMAIN free.cache
          /\ free.cache[free.thunk.body] = FreeOfExpr(free.thunk.body)
    /\ free.op = "thunk" =>
          /\ free.vars = FreeOfExpr(free.thunk.body) \ Range(free.thunk.args)
          /\ (FreeOfExpr(free.thunk.body) = {"x", "y", "z"} /\ free.thunk.args = <<"x">>)
                => free.vars = {"y", "z"}

\* C15 witness: the thunk call on parameters {x} and a body that refers to x,
\* y and z, one of them inside a nested thunk, has been made
C15_Witness ==
    /\ free.op = "thunk"
    /\ free.thunk.args = <<"x">>
    /\ free.cache[free.thunk.body] = {"x", "y", "z"}
    /\ Cardinality(DOMAIN free.cache) = 2
    /\ free.vars = {"y", "z"}

----------------------------------------------------------------------------
(* reachability.rs: the collected traversals of a node *)

\* Iterator::collect into an IndexSet: the items in the order they are first
\* yielded, each once
Collect(r) == Unique(Drain(next(r)).yielded)

\* Node::forward_reachable_n, Node::backward_reachable_n
forward_reachable_n(wires, n, depth_limit) == NewReachable(wires, <<n>>, TRUE, depth_limit)
backward_reachable_n(wires, n, depth_limit) == NewReachable(wires, <<n>>, FALSE, depth_limit)

\* IndexSet::intersection: the items of a that b holds, in the order of a
Intersection(a, b) == SelectSeq(a, LAMBDA x : x \in Range(b))

\* A collection that forgets the backward traversal.
bidirectional_reachable_n_forward(wires, n, depth_limit) ==
    Collect(forward_reachable_n(wires, n, depth_limit))

\* A collection that joins the two traversals.
bidirectional_reachable_n_union(wires, n, depth_limit) ==
    Unique(Collect(forward_reachable_n(wires, n, depth_limit))
           \o Collect(backward_reachable_n(wires, n, depth_limit)))

\* Node::bidirectional_reachable_n
bidirectional_reachable_n(wires, n, depth_limit) ==
    Intersection(Collect(forward_reachable_n(wires, n, depth_limit)),
                 Collect(backward_reachable_n(wires, n, depth_limit)))

\* a node of a graph and the depth limit of a call on it
InitBidirectional ==
    /\ InitGraph
    /\ swaps = NoSwaps
    /\ collapse = NoCollapse
    /\ free = NoFree
    /\ curwiring = NoWiring
    /\ \E ws \in ReachGraphs, n \in 0..(ReachNodes - 1), d \in 0..(MaxDepth + 1) :
          reach = forward_reachable_n(ws, n, d)

BidirectionalReachableN ==
    /\ last.op = "new"
    /\ last' = [op |-> "bidirectional_reachable_n", result |-> "Ok",
                reachable |-> bidirectional_reachable_n(reach.wires, reach.start[1],
                                                        reach.depth_limit)]
    /\ UNCHANGED <<graph, failures, swaps, reach, collapse, free, curwiring>>

NextBidirectional == BidirectionalReachableN

SpecBidirectional == InitBidirectional /\ [][NextBidirectional]_vars

\* the set of nodes a traversal yields until it returns None
YieldedBy(r) == Range(Drain(next(r)).yielded)

\* C16: bidirectional_reachable_n(depth) of a node n is the intersection of
\* what forward_reachable_n(depth) and backward_reachable_n(depth) yield, each
\* node once; with depth 0 it is exactly {n}.
C16_Bidirectional ==
    last.op = "bidirectional_reachable_n" =>
        /\ Range(last.reachable) =
              YieldedBy(NewReachable(reach.wires, reach.start, TRUE, reach.depth_limit))
              \cap YieldedBy(NewReachable(reach.wires, reach.start, FALSE, reach.depth_limit))
        /\ Cardinality(Range(last.reachable)) = Len(last.reachable)
        /\ reach.depth_limit = 0 => last.reachable = reach.start

\* C16 witness: a call whose forward and backward traversals differ and share
\* a node beside n
C16_Witness ==
    /\ last.op = "bidirectional_reachable_n"
    /\ Len(last.reachable) >= 2
    /\ YieldedBy(NewReachable(reach.wires, reach.start, TRUE, reach.depth_limit))
          # YieldedBy(NewReachable(reach.wires, reach.start, FALSE, reach.depth_limit))

----------------------------------------------------------------------------
(* Claims on the sharing of the expansion map *)

\* the map after the last call, from the map before it
AfterCall(call) ==
    IF call.op = "toggle"
    THEN [call.before EXCEPT ![call.thunk] = ~call.before[call.thunk]]
    ELSE [t \in DOMAIN call.before |-> call.value]

\* C17: toggle and set_all install a new map and never modify an earlier
\* snapshot: a view made before a call (an edge, an operation, a thunk or a
\* clone of the graph) still reads the flags it read when it was made;
\* toggle(t) changes the flag of t only; set_all(v) sets every flag to v and
\* adds or removes no key.
C17_CopyOnWrite ==
    /\ \A i \in 1..Len(collapse.views) :
          collapse.heap[collapse.views[i].arc] = collapse.views[i].expanded
    /\ collapse.heap[collapse.arc] = collapse.expanded
    /\ collapse.log # <<>> =>
          /\ collapse.expanded = AfterCall(collapse.log[Len(collapse.log)])
          /\ DOMAIN collapse.expanded = DOMAIN collapse.log[Len(collapse.log)].before

\* C17 witness: two views made before and after a toggle that changed a flag,
\* a third map installed since, and the two views hold different maps
C17_Witness ==
    /\ Len(collapse.views) = 2
    /\ collapse.views[1].arc # collapse.views[2].arc
    /\ collapse.arc \notin {collapse.views[1].arc, collapse.views[2].arc}
    /\ collapse.views[1].expanded # collapse.views[2].expanded
    /\ collapse.expanded # collapse.views[2].expanded
    /\ Len(collapse.log) = 2 /\ collapse.log[1].op = "toggle" /\ collapse.log[2].op = "set_all"

----------------------------------------------------------------------------
(* hypergraph.rs: get and recurse *)

\* HyperGraph::get
get(g, key) ==
    IF HasNode(g, key) THEN [result |-> "Ok", data |-> get_info(g, key).data]
    ELSE [result |-> "UnknownNode"]

\* HyperGraph::recurse: Some(graph) or None
RECURSIVE recurse(_, _)
recurse(g, path) ==
    IF path = <<>> THEN Some(g)
    ELSE IF get(g, Head(path)).result = "Ok" /\ get(g, Head(path)).data.kind = "Thunk"
         THEN recurse(get(g, Head(path)).data.body, Tail(path))
         ELSE None

\* the paths handed to recurse: indices of nodes and one index that no graph
\* of the model holds
Paths == SeqsUpTo(0..MaxNodes, MaxPath)

Recurse ==
    /\ Building
    /\ \E path \in Paths :
          last' = [op |-> "recurse",
                   result |-> IF recurse(graph, path) = None THEN "None" ELSE "Some",
                   path |-> path, found |-> recurse(graph, path)]
    /\ UNCHANGED <<graph, failures, swaps, reach, collapse, free, curwiring>>

NextRecurse == AddNodeOk \/ Recurse

SpecRecurse == Init /\ [][NextRecurse]_vars

----------------------------------------------------------------------------
(* Claims on recurse *)

\* The walk along path reaches an element that addresses no node of the graph
\* it has come to.
RECURSIVE AbsentOn(_, _)
AbsentOn(g, path) ==
    /\ path # <<>>
    /\ \/ ~HasNode(g, Head(path))
       \/ /\ get_info(g, Head(path)).data.kind = "Thunk"
          /\ AbsentOn(get_info(g, Head(path)).data.body, Tail(path))

\* The walk along path reaches an element that addresses a node that is no
\* Thunk.
RECURSIVE NonThunkOn(_, _)
NonThunkOn(g, path) ==
    /\ path # <<>>
    /\ HasNode(g, Head(path))
    /\ \/ get_info(g, Head(path)).data.kind # "Thunk"
       \/ NonThunkOn(get_info(g, Head(path)).data.body, Tail(path))

\* C18: recurse(path) raises UnknownNode when an element of the path addresses
\* a node absent from the graph, and returns None when an element addresses a
\* node that is not a Thunk: the two cases are told apart.
C18_RecurseUnknownNode ==
    last.op = "recurse" =>
        /\ AbsentOn(graph, last.path) => last.result = "UnknownNode"
        /\ NonThunkOn(graph, last.path) => last.result = "None"

----------------------------------------------------------------------------
(* monoidal.rs: the layers of from_hypergraph.  For each rank, in the order *)
(* of the loop: the open wires the rank meets, the ports its sorted ops     *)
(* offer (the producer side) and the wiring between the two.                *)

RECURSIVE Layers(_, _, _, _)

\* the layer of a rank and the layers of the ranks after it
LayerWired(g, ranks, it, open_wires, ops, ports, w) ==
    IF w.result # "Ok" THEN <<>>
    ELSE <<[open_wires |-> open_wires, ports |-> ports,
            ids |-> SelectSeq(ops, LAMBDA d : d.op.kind = "Id"),
            wiring |-> w.wiring]>>
         \o Layers(g, Tail(ranks), it,
                   Flatten([k \in 1..Len(ops) |-> input_ports(ops[k].op)]))

LayerSorted(g, ranks, it, open_wires, ops) ==
    LayerWired(g, ranks, it, open_wires, ops, OutPorts(ops),
               AddWires(NewWiring(Len(OutPorts(ops))), OutPorts(ops), open_wires, 1))

Layers(g, ranks, it, open_wires) ==
    IF ranks = <<>> THEN <<>>
    ELSE LayerSorted(g, ranks, it, open_wires,
                     SortByWeight(RankOps(g, Head(ranks), open_wires, it), <<>>))

\* the layers of the call of from_hypergraph whose ranks_from_end returned rk
LayersOf(g, rk, it) ==
    Layers(g, Append(rk.ranks, rk.inputs), it, OutputWires(g, SetOrder(rk.outputs, it)))

----------------------------------------------------------------------------
(* Claims on the wiring layers *)

\* how often port p occurs in the sequence ws
Occurrences(ws, p) == Cardinality({i \in 1..Len(ws) : ws[i] = p})

\* On the producer side of the layer every port appears once, every open
\* wire is a port of the producer side, and the wires that leave a port are
\* as many as the port occurs in the open wires.
LayerReduces(layer) ==
    /\ \A i, j \in 1..Len(layer.ports) : i < j => layer.ports[i] # layer.ports[j]
    /\ \A i, j \in 1..Len(layer.ids) : i < j => layer.ids[i].op.port # layer.ids[j].op.port
    /\ \A k \in 1..Len(layer.ports) :
          Cardinality(layer.wiring.forward[k]) = Occurrences(layer.open_wires, layer.ports[k])

\* C19: each wiring layer that from_hypergraph builds reduces the open wires
\* to one instance per distinct producing port, ports that pass through the
\* rank and are demanded several times too, and the Copy op of a port has as
\* many copies as the port occurs in the open wires.
C19_OneInstancePerPort ==
    (last.op = "to_graph" /\ last.result = "Ok") =>
        \A rk \in RankResults(graph) : \A it \in SetOrdersOf(graph, rk) :
            \A k \in 1..Len(LayersOf(graph, rk, it)) :
                LayerReduces(LayersOf(graph, rk, it)[k])

----------------------------------------------------------------------------
(* Claims on the nodes of the collapsed view *)

\* the graph and the thunks whose nodes() is asked
Holders(c) == {None} \cup {Some(t) : t \in DOMAIN c.expanded}

\* the numbers of inputs, or of outputs, of the nodes of a wrapped graph
\* whose node n has v of them and whose other nodes have none
Arities(c, n) ==
    {[m \in 1..Len(c.kinds) |-> IF m = n THEN v ELSE 0] : v \in 0..MaxInputs}

\* The view cn of the wrapped node n: an Operation stays an Operation, a
\* Thunk is a Thunk iff its flag is true and otherwise an Operation with the
\* inputs and outputs of the thunk; into_inner gives n back.
ViewOf(c, cn, n) ==
    /\ into_inner(cn) = n
    /\ c.kinds[n] = "Operation" => cn.kind = "Operation"
    /\ c.kinds[n] = "Thunk" =>
          /\ cn.kind = "Thunk" <=> c.expanded[n]
          /\ ~c.expanded[n] =>
                /\ cn.kind = "Operation"
                /\ \A a \in Arities(c, n) :
                      /\ operation_number_of_inputs(a, cn) = a[n]
                      /\ operation_number_of_outputs(a, cn) = a[n]

\* C20: CollapseGraph::nodes() and CollapseThunk::nodes() return one node for
\* each node of the wrapped graph, or thunk, in the same order; an Operation
\* stays an Operation, a Thunk appears as a Thunk iff its expansion flag is
\* true and otherwise as an opaque Operation with the thunk's numbers of
\* inputs and outputs; into_inner() returns the wrapped node.
C20_NodesOfView ==
    \A holder \in Holders(collapse) :
        /\ Len(nodes(collapse, holder)) = Len(InnerNodes(collapse, holder))
        /\ \A k \in 1..Len(InnerNodes(collapse, holder)) :
              ViewOf(collapse, nodes(collapse, holder)[k], InnerNodes(collapse, holder)[k])

\* C20 witness: after a toggle the graph shows a folded thunk as an Operation
\* beside an unfolded thunk that holds a node
C20_Witness ==
    /\ collapse.log # <<>> /\ collapse.log[Len(collapse.log)].op = "toggle"
    /\ \E i, j \in 1..Len(nodes(collapse, None)) :
          /\ nodes(collapse, None)[i].kind = "Operation"
          /\ collapse.kinds[into_inner(nodes(collapse, None)[i])] = "Thunk"
          /\ nodes(collapse, None)[j].kind = "Thunk"
          /\ nodes(collapse, Some(into_inner(nodes(collapse, None)[j]))) # <<>>

----------------------------------------------------------------------------
(* Claims on the thunks of the synthesis *)

\* Every Thunk op of the graph, and of the bodies of its thunks, declares no
\* more args than its body has inputs, so that body.inputs - args is a usize.
RECURSIVE ThunkArgsBounded(_)
ThunkArgsBounded(mg) ==
    \A i \in 1..Len(mg.slices) : \A k \in 1..Len(mg.slices[i]) :
        mg.slices[i][k].kind = "Thunk" =>
            /\ mg.slices[i][k].args <= mg.slices[i][k].body.inputs
            /\ OpInputs(mg.slices[i][k]) >= 0
            /\ ThunkArgsBounded(mg.slices[i][k].body)

\* C21: for every Thunk node stored through add_node and lowered by
\* from_hypergraph and to_graph, the declared args is at most the number of
\* inputs of its body, so MonoidalOp::Thunk::number_of_inputs, body.inputs -
\* args on unsigned integers, never underflows.
C21_ThunkArgsBounded ==
    (last.op = "to_graph" /\ last.result = "Ok") => ThunkArgsBounded(last.mono)

----------------------------------------------------------------------------
(* Subgraph extraction (hypergraph::subgraph, as selection.rs calls it):    *)
(* normalise_selection closes the selection under the extension rule, and   *)
(* generate_subgraph builds an independent hypergraph from it with add_node. *)

\* The nodes outside s whose values are consumed, and only inside s
Extendable(g, s) ==
    {n \in NodeIndices(g) \ s : Consumers(g, n) # {} /\ Consumers(g, n) \subseteq s}

\* normalise_selection: pull in the sources consumed only within the selection
RECURSIVE normalise_selection(_, _)
normalise_selection(g, s) ==
    IF Extendable(g, s) = {} THEN s
    ELSE normalise_selection(g, s \cup Extendable(g, s))

\* the selected nodes, in index order
Selected(g, s) == SelectSeq([i \in 1..Len(g) |-> i - 1], LAMBDA n : n \in s)

\* The boundary edges whose source lies outside, in the order encountered
BoundaryInputs(g, s) ==
    LET sel == Selected(g, s)
    IN Unique(SelectSeq(Flatten([j \in 1..Len(sel) |-> get_inputs(g, sel[j])]),
                        LAMBDA p : p.node \notin s))

\* The output ports of the selection with a consumer outside it, in order
BoundaryOutputs(g, s) ==
    LET sel == Selected(g, s)
    IN SelectSeq(Flatten([j \in 1..Len(sel) |->
                     [k \in 1..number_of_outputs(g, sel[j]) |-> Port(sel[j], k - 1)]]),
                 LAMBDA p : \E c \in get_info(g, p.node).outputs[p.index + 1] :
                                c.node \notin s)

\* position of x in the sequence q that holds it
IndexIn(q, x) == CHOOSE i \in 1..Len(q) : q[i] = x

\* A port that addresses the containing graph, kept as it is.
RemapKeepingOutside(g, s, p) ==
    IF p.node \in s
    THEN Port(Len(BoundaryInputs(g, s)) + IndexIn(Selected(g, s), p.node) - 1, p.index)
    ELSE p

\* The port of the extracted graph that stands for port p of the containing
\* graph: the copy of its node, or the synthesized Input of the boundary edge.
Remap(g, s, p) ==
    IF p.node \in s
    THEN Port(Len(BoundaryInputs(g, s)) + IndexIn(Selected(g, s), p.node) - 1, p.index)
    ELSE Port(IndexIn(BoundaryInputs(g, s), p) - 1, 0)

\* The add_node calls of generate_subgraph: the synthesized Inputs, the
\* copies of the selected nodes, the synthesized Outputs.
SubgraphCalls(g, s) ==
    LET sel == Selected(g, s)
        ins == BoundaryInputs(g, s)
        outs == BoundaryOutputs(g, s)
    IN [i \in 1..Len(ins) |-> Call(InputNode, <<>>, 1)]
       \o [j \in 1..Len(sel) |->
              Call(get_info(g, sel[j]).data,
                   [k \in 1..number_of_inputs(g, sel[j]) |->
                       Remap(g, s, get_inputs(g, sel[j])[k])],
                   number_of_outputs(g, sel[j]))]
       \o [o \in 1..Len(outs) |-> Call(OutputNode, <<Remap(g, s, outs[o])>>, 0)]

\* the calls from the i-th on, stopping at the first that fails
RECURSIVE AddAll(_, _, _)
AddAll(sub, calls, i) ==
    IF i > Len(calls) THEN [nodes |-> sub, result |-> "Ok"]
    ELSE LET r == add_node(sub, calls[i].data, calls[i].inputs, calls[i].output_ports)
         IN IF r.result # "Ok" THEN r ELSE AddAll(r.nodes, calls, i + 1)

\* generate_subgraph
generate_subgraph(g, s) == AddAll(NewGraph, SubgraphCalls(g, s), 1)

\* SelectionInternal::new: normalise_selection, then generate_subgraph
GenerateSubgraph ==
    /\ Building
    /\ \E s \in SUBSET NodeIndices(graph) :
          LET normalised == normalise_selection(graph, s)
              r == generate_subgraph(graph, normalised)
          IN last' = [op |-> "generate_subgraph", result |-> r.result,
                      containing |-> graph, selected_nodes |-> s,
                      normalised |-> normalised, hypergraph |-> r.nodes]
    /\ UNCHANGED <<graph, failures, swaps, reach, collapse, free, curwiring>>

NextSubgraph == AddNodeOk \/ GenerateSubgraph

SpecSubgraph == Init /\ [][NextSubgraph]_vars

\* the synthesized Input nodes, the copies and the synthesized Output nodes of
\* an extracted graph
SynthInputs(g, s) == 0..(Len(BoundaryInputs(g, s)) - 1)
Copies(g, s) ==
    Len(BoundaryInputs(g, s))..(Len(BoundaryInputs(g, s)) + Cardinality(s) - 1)
SynthOutputs(g, s, sub) == (NodeIndices(sub) \ SynthInputs(g, s)) \ Copies(g, s)

\* Every edge of sub joins two copies or ends in a synthesized node, and the
\* synthesized nodes are Input and Output nodes.
EdgesClosed(g, s, sub) ==
    /\ \A n \in SynthInputs(g, s) :
          is_input(get_info(sub, n).data) /\ Consumers(sub, n) \subseteq Copies(g, s)
    /\ \A n \in SynthOutputs(g, s, sub) :
          /\ is_output(get_info(sub, n).data)
          /\ \A k \in 1..number_of_inputs(sub, n) :
                get_inputs(sub, n)[k].node \in Copies(g, s)
    /\ \A n \in Copies(g, s) :
          /\ \A k \in 1..number_of_inputs(sub, n) :
                get_inputs(sub, n)[k].node \in Copies(g, s) \cup SynthInputs(g, s)
          /\ Consumers(sub, n) \subseteq Copies(g, s) \cup SynthOutputs(g, s, sub)

\* No edge of sub addresses a node or a port that sub does not hold.
NothingAbsent(sub) ==
    /\ ConsumersWired(sub)
    /\ \A n \in NodeIndices(sub) : \A k \in 1..number_of_inputs(sub, n) :
          /\ HasNode(sub, get_inputs(sub, n)[k].node)
          /\ get_inputs(sub, n)[k].index < number_of_outputs(sub, get_inputs(sub, n)[k].node)

\* C22: for any selected node set, the hypergraph that normalise_selection
\* followed by generate_subgraph produces is closed: each of its edges has
\* both endpoints among the extracted nodes or ends in a synthesized Input or
\* Output node, no edge addresses a NodeIndex absent from it, and the
\* containing graph is not modified.
C22_ExtractionClosed ==
    last.op = "generate_subgraph" =>
        /\ last.result = "Ok"
        /\ EdgesClosed(last.containing, last.normalised, last.hypergraph)
        /\ NothingAbsent(last.hypergraph)
        /\ graph = last.containing

\* a selection with a boundary edge on each side has been extracted
C22_Witness ==
    /\ last.op = "generate_subgraph"
    /\ last.result = "Ok"
    /\ BoundaryInputs(last.containing, last.normalised) # <<>>
    /\ BoundaryOutputs(last.containing, last.normalised) # <<>>
    /\ last.normalised # NodeIndices(last.containing)

----------------------------------------------------------------------------
(* Claims on the construction phase *)

\* h is g with one node appended at index Len(g): the nodes of g keep their
\* index, data and inputs and every consumer entry, and the entries added to
\* an output port are exactly one (new node, i) for each input i of the new
\* node that names the port.
AppendOnly(g, h) ==
    /\ Len(h) = Len(g) + 1
    /\ \A n \in NodeIndices(g) : vacant_key(g) > n
    /\ \A n \in NodeIndices(g) :
          /\ get_info(h, n).data = get_info(g, n).data
          /\ get_info(h, n).inputs = get_info(g, n).inputs
          /\ number_of_outputs(h, n) = number_of_outputs(g, n)
          /\ \A p \in 1..number_of_outputs(g, n) :
                /\ get_info(g, n).outputs[p] \subseteq get_info(h, n).outputs[p]
                /\ get_info(h, n).outputs[p] \ get_info(g, n).outputs[p] =
                       {Port(vacant_key(g), i - 1) :
                           i \in {k \in 1..number_of_inputs(h, vacant_key(g)) :
                                     get_inputs(h, vacant_key(g))[k] = Port(n, p - 1)}}

\* C23: a successful add_node changes the index, the data and the input list
\* of no existing node and removes no consumer entry; it only allocates the
\* new node at a fresh index, the previous node count, and adds exactly one
\* consumer entry (new node, i) to the source port of each input i.
C23_AppendOnly ==
    [][(last'.op = "add_node" /\ last'.result = "Ok") => AppendOnly(graph, graph')]_vars

----------------------------------------------------------------------------
(* monoidal.rs: a Wiring from Wiring::new on, any add_wire calls on it, and  *)
(* to_slices.                                                               *)

\* inputs a Wiring is created with
MaxWiringInputs == 3

InitWiring ==
    /\ graph = NewGraph
    /\ failures = 0
    /\ last = [op |-> "Wiring::new", result |-> "Ok"]
    /\ swaps = NoSwaps
    /\ reach = NoReach
    /\ collapse = NoCollapse
    /\ free = NoFree
    /\ \E k \in 0..MaxWiringInputs : curwiring = NewWiring(k)

\* wiring.add_wire(input), input < inputs
AddWire ==
    /\ Len(curwiring.backward) < MaxWires
    /\ \E input \in 0..(Len(curwiring.forward) - 1) :
          curwiring' = add_wire(curwiring, input)
    /\ last' = [op |-> "add_wire", result |-> "Ok"]
    /\ UNCHANGED <<graph, failures, swaps, reach, collapse, free>>

\* wiring.to_slices(prefix)
ToSlices ==
    /\ last' = [op |-> "to_slices", result |-> "Ok", slices |-> to_slices(curwiring)]
    /\ UNCHANGED <<graph, failures, swaps, reach, collapse, free, curwiring>>

NextWiring == AddWire \/ ToSlices

SpecWiring == InitWiring /\ [][NextWiring]_vars

\* The wires that leave a slice, each named by the input it carries: a Copy
\* repeats its wire `copies` times, a Swap exchanges its two wires.
RECURSIVE RouteOps(_, _)
RouteOps(carried, ops) ==
    IF ops = <<>> THEN carried
    ELSE IF Head(ops).kind = "Swap"
         THEN <<carried[2], carried[1]>>
                  \o RouteOps(SubSeq(carried, 3, Len(carried)), Tail(ops))
         ELSE [c \in 1..Head(ops).copies |-> carried[1]]
                  \o RouteOps(Tail(carried), Tail(ops))

RECURSIVE Route(_, _)
Route(carried, slices) ==
    IF slices = <<>> THEN carried
    ELSE Route(RouteOps(carried, Head(slices)), Tail(slices))

\* slices compose from `from` wires to `to` wires
ComposesBetween(slices, from, to) ==
    /\ \A i \in 1..(Len(slices) - 1) : SliceOutputs(slices[i]) = SliceInputs(slices[i + 1])
    /\ IF slices = <<>> THEN from = to
       ELSE SliceInputs(slices[1]) = from /\ SliceOutputs(slices[Len(slices)]) = to

\* forward and backward record the same wires
Consistent(w) ==
    /\ SumSeq([i \in 1..Len(w.forward) |-> Cardinality(w.forward[i])]) = Len(w.backward)
    /\ \A i \in 1..Len(w.forward) : \A j \in 0..(MaxWires - 1) :
          j \in w.forward[i] <=> (j < Len(w.backward) /\ w.backward[j + 1] = i - 1)

\* some input is not used exactly once
CopyNeeded(w) == \E i \in 1..Len(w.forward) : Cardinality(w.forward[i]) # 1

\* C24: for a Wiring built by Wiring::new(k) and any add_wire(input) calls
\* with input < k, the sizes of the forward sets sum to backward.len() and j
\* is in forward[i] exactly if backward[j] = i; to_slices returns slices that
\* compose from k input wires to backward.len() output wires and route them
\* as recorded, output wire j carrying input backward[j]: the copy slice
\* first, emitted exactly if some input is not used exactly once, then the
\* swap slices of permutation_to_swaps(backward) in reverse emission order.
C24_WiringSlices ==
    /\ Consistent(curwiring)
    /\ last.op = "to_slices" =>
          /\ ComposesBetween(last.slices, Len(curwiring.forward), Len(curwiring.backward))
          /\ Route(Identity(Len(curwiring.forward)), last.slices) = curwiring.backward
          /\ last.slices =
                (IF CopyNeeded(curwiring)
                 THEN << [i \in 1..Len(curwiring.forward) |->
                             Copy(Cardinality(curwiring.forward[i]))] >>
                 ELSE <<>>)
                \o Reverse(permutation_to_swaps(curwiring.backward))

\* to_slices has returned a copy slice followed by two swap slices
C24_Witness ==
    /\ last.op = "to_slices"
    /\ CopyNeeded(curwiring)
    /\ Len(last.slices) = 3

----------------------------------------------------------------------------
(* Claims on the frontier of an NReachable *)

\* C25: in every state of an NReachable traversal, whatever the start set,
\* the next() calls (those that stall and put the entry back too) and the
\* increase_depth_limit calls, the distances of the frontier entries are
\* non-decreasing from front to back.
C25_FrontierMonotone ==
    \A i, j \in 1..Len(reach.frontier) :
        i < j => reach.frontier[i][1] <= reach.frontier[j][1]

\* after a raise of the depth limit, next() has yielded a node and left a
\* frontier that holds two distances
C25_Witness ==
    /\ reach.bumps > 0
    /\ reach.called
    /\ reach.returned # None
    /\ reach.frontier # <<>>
    /\ reach.frontier[1][1] < reach.frontier[Len(reach.frontier)][1]


\* the nodes within k steps of the nodes of s, along the direction of r
RECURSIVE Within(_, _, _)
Within(r, s, k) ==
    IF k = 0 THEN s
    ELSE Within(r, s \cup UNION {Range(next_nodes(r, x)) : x \in s}, k - 1)

\* the length of a shortest path from the start nodes of r to x; ReachNodes
\* for a node that no path reaches
Distance(r, x) ==
    IF x \in Within(r, Range(r.start), ReachNodes - 1)
    THEN CHOOSE k \in 0..(ReachNodes - 1) :
            /\ x \in Within(r, Range(r.start), k)
            /\ \A m \in 0..(k - 1) : x \notin Within(r, Range(r.start), m)
    ELSE ReachNodes

\* C26: forward_reachable_n(d) from a node n, and backward_reachable_n
\* symmetrically, yields exactly the nodes whose shortest path distance from
\* n is at most d, n itself at distance 0, in non-decreasing order of
\* distance; no node at a distance above d is ever yielded.
C26_ShortestDistance ==
    (Len(reach.start) = 1 /\ reach.bumps = 0) =>
        /\ \A k \in 1..Len(reach.yielded) :
              Distance(reach, reach.yielded[k]) <= reach.depth_limit
        /\ reach.yielded # <<>> => reach.yielded[1] = reach.start[1]
        /\ (reach.called /\ reach.returned = None) =>
              Range(reach.yielded) =
                  {x \in 0..(ReachNodes - 1) : Distance(reach, x) <= reach.depth_limit}
        /\ \A i, j \in 1..Len(reach.yielded) :
              i < j => Distance(reach, reach.yielded[i]) <= Distance(reach, reach.yielded[j])

----------------------------------------------------------------------------
(* The synthesis of the graphs built on HyperGraph::default() *)

\* nodes of a graph built on the default graph, its Input and Output included
MaxDefaultNodes == 5

InitDefault ==
    /\ graph = DefaultGraph
    /\ failures = 0
    /\ last = [op |-> "add_node", result |-> "Ok"]
    /\ swaps = NoSwaps
    /\ reach = NoReach
    /\ collapse = NoCollapse
    /\ free = NoFree
    /\ curwiring = NoWiring

\* one add_node call that succeeds
AddOnDefault ==
    /\ Building
    /\ Len(graph) < MaxDefaultNodes
    /\ \E c \in Calls(graph) :
          LET r == add_node(graph, c.data, c.inputs, c.output_ports) IN
          /\ r.result = "Ok"
          /\ graph' = r.nodes
          /\ last' = [op |-> "add_node", result |-> "Ok"]
    /\ UNCHANGED <<failures, swaps, reach, collapse, free, curwiring>>

NextDefault == AddOnDefault \/ Synthesise

SpecDefault == InitDefault /\ [][NextDefault]_vars

\* C27: from_hypergraph returns Ok for every well-formed acyclic hypergraph
\* built by successful add_node calls on the default graph, and UnknownPort
\* only if an open wire addresses a port that does not exist; in particular
\* it succeeds when a wire from a port of index 1 or more passes through a
\* rank that does not hold its producer.
C27_LoweringSucceeds ==
    last.op = "to_graph" => last.result = "Ok"

----------------------------------------------------------------------------
(* Claims on the runs of ranks_from_end *)

\* C28: ranks_from_end is deterministic: a second run on the same graph
\* returns the same sequence of ranks as the run just made, whatever the
\* order in which the internal map yields its entries.
C28_RanksDeterministic ==
    (last.op = "ranks_from_end" /\ last.result = "Ok") =>
        \A ord \in MapOrders(graph) :
            /\ ~ranks_from_end(graph, ord).diverges
            /\ ranks_from_end(graph, ord).ranks = last.ranks
            /\ ranks_from_end(graph, ord).inputs = last.inputs
            /\ ranks_from_end(graph, ord).outputs = last.outputs

----------------------------------------------------------------------------
(* reachability.rs: the depth limit of the traversals, those of the         *)
(* unbounded constructors included, in builds with and without overflow     *)
(* checks.                                                                  *)

\* the graphs of these traversals: up to two wires
LimitGraphs == UNION {WiresInOrder(k, 0) : k \in 0..2}

\* NReachable::forward_from, NReachable::backward_from
forward_from(wires, start) == NewReachable(wires, start, TRUE, UsizeMax)
backward_from(wires, start) == NewReachable(wires, start, FALSE, UsizeMax)

InitLimit ==
    /\ InitGraph
    /\ swaps = NoSwaps
    /\ collapse = NoCollapse
    /\ free = NoFree
    /\ curwiring = NoWiring
    /\ \E ws \in LimitGraphs, st \in ReachStarts, checks \in BOOLEAN :
          \E r \in {forward_from(ws, st), backward_from(ws, st)}
                   \cup {NewReachable(ws, st, fw, d) : fw \in BOOLEAN, d \in 0..MaxDepth} :
              reach = [r EXCEPT !.overflow_checks = checks]

LimitNext ==
    /\ ~reach.panicked
    /\ reach' = next(reach)
    /\ UNCHANGED <<graph, failures, last, swaps, collapse, free, curwiring>>

LimitIncrease ==
    /\ ~reach.panicked
    /\ reach.bumps < MaxBumps
    /\ \E n \in 2..MaxIncrease : reach' = increase_depth_limit(reach, n)
    /\ UNCHANGED <<graph, failures, last, swaps, collapse, free, curwiring>>

LimitBump ==
    /\ ~reach.panicked
    /\ reach.bumps < MaxBumps
    /\ reach' = bump_depth_limit(reach)
    /\ UNCHANGED <<graph, failures, last, swaps, collapse, free, curwiring>>

NextLimit == LimitNext \/ LimitIncrease \/ LimitBump

SpecLimit == InitLimit /\ [][NextLimit]_vars

\* C29: increase_depth_limit(n) and bump_depth_limit never lower the depth
\* limit: after the call the limit is the old limit plus n, without
\* overflow, wrap-around or panic, also for the traversals of the unbounded
\* constructors, whose limit is usize::MAX.
C29_LimitNeverLowered ==
    [][reach'.bumps # reach.bumps =>
          /\ ~reach'.panicked
          /\ reach'.depth_limit >= reach.depth_limit
          /\ reach'.depth_limit = reach.depth_limit + reach'.increase]_vars

----------------------------------------------------------------------------
(* reachability.rs: the bidirectional collections, of one node and of a set *)
(* of start nodes, with a depth limit and without.                          *)

\* NReachable::bidirectional_from_n
bidirectional_from_n(wires, start, depth_limit) ==
    Intersection(Collect(NewReachable(wires, start, TRUE, depth_limit)),
                 Collect(NewReachable(wires, start, FALSE, depth_limit)))

\* the start nodes and the depth limit of a call; usize::MAX is the limit of
\* bidirectional_reachable and bidirectional_from
InitOrigins ==
    /\ InitGraph
    /\ swaps = NoSwaps
    /\ collapse = NoCollapse
    /\ free = NoFree
    /\ curwiring = NoWiring
    /\ \E ws \in ReachGraphs, st \in ReachStarts, d \in (0..MaxDepth) \cup {UsizeMax} :
          reach = NewReachable(ws, st, TRUE, d)

OriginReachableN ==
    /\ last.op = "new"
    /\ Len(reach.start) = 1
    /\ last' = [op |-> "bidirectional_reachable_n", result |-> "Ok",
                reachable |-> bidirectional_reachable_n(reach.wires, reach.start[1],
                                                        reach.depth_limit)]
    /\ UNCHANGED <<graph, failures, swaps, reach, collapse, free, curwiring>>

BidirectionalFromN ==
    /\ last.op = "new"
    /\ last' = [op |-> "bidirectional_from_n", result |-> "Ok",
                reachable |-> bidirectional_from_n(reach.wires, reach.start,
                                                   reach.depth_limit)]
    /\ UNCHANGED <<graph, failures, swaps, reach, collapse, free, curwiring>>

NextOrigins == OriginReachableN \/ BidirectionalFromN

SpecOrigins == InitOrigins /\ [][NextOrigins]_vars

\* no node of the graph of r is on a path that returns to it
Acyclic(r) ==
    \A x \in 0..(ReachNodes - 1) :
        x \notin Within(r, Range(next_nodes(r, x)), ReachNodes - 1)

\* C30: in an acyclic graph bidirectional_reachable_n(d) of a single origin n
\* returns exactly {n}, for every d and without a limit, since no other node
\* is reachable both forward and backward; only bidirectional_from_n with
\* several start nodes can return other nodes.
C30_OriginOnly ==
    (Acyclic(reach) /\ Len(reach.start) = 1
        /\ last.op \in {"bidirectional_reachable_n", "bidirectional_from_n"}) =>
            last.reachable = reach.start

\* the call has returned for an origin of an acyclic graph that has a
\* successor and a predecessor within the limit
C30_Witness ==
    /\ Acyclic(reach)
    /\ last.op = "bidirectional_reachable_n"
    /\ reach.depth_limit >= 1
    /\ successors(reach.wires, reach.start[1]) # <<>>
    /\ predecessors(reach.wires, reach.start[1]) # <<>>

====
